---- MODULE Spec2Model ----
(***************************************************************************)
(* The BookRental ledger (contract BookRental, late-fee revision, kept in  *)
(* src/test/BookRental.test.js lines 141-388) as a state machine.          *)
(*                                                                         *)
(* A transaction of the EVM is atomic and transactions are serialised, but *)
(* every `call{value: ..}` hands control to the recipient, who may accept  *)
(* the value, make the call fail, or call back into the contract.  The     *)
(* model therefore splits rentBook and returnBook at their value           *)
(* transfers: pc names the transfer that is pending, snap is the state a   *)
(* revert restores.                                                        *)
(***************************************************************************)
EXTENDS Integers, Sequences, FiniteSets, TLC

\* ------------------------------------------------------------------ bounds
NumUsers == 3          \* externally owned identities 1..NumUsers
NumListers == 1        \* the identities 1..NumListers call listBook
MaxBooks == 2          \* listings allowed before listBook is no longer offered
MaxDays == 3           \* blocks are mined at StartTime + k days, k in 0..MaxDays,
MaxSkew == 1           \* and at StartTime + 1 day + e seconds, e in 1..MaxSkew
StartTime == 1000000   \* block.timestamp of the first block
Price == 100           \* the non-zero daily price offered to listBook
SmallDeposit == 200    \* a deposit the rental cost can reach and exceed
LargeDeposit == 1000   \* a deposit the rental cost stays below
Excess == 5            \* overpayment offered to rentBook
MaxUint == 1073741823  \* largest value of the unsigned integer type (scaled to TLC's integers)
MaxStuck == 10         \* overpayments are offered to the earlier revision while it holds less than this beyond the deposits
MaxTasks == 4          \* calls of the provider's functions in flight at once

\* ------------------------------------------------------- program constants
DAY == 86400
DayMinusOne == 86399
ZERO == 0

Users == 1..NumUsers
Listers == 1..NumListers
BookIds == 0..MaxBooks
Titles == {"Dune"}
Uris == {"ipfs://cid"}
DailyPrices == {0, Price}
Deposits == {0, SmallDeposit, LargeDeposit}
Instants == {StartTime + k * DAY : k \in 0..MaxDays}
            \cup {StartTime + DAY + e : e \in 1..MaxSkew}

\* revert reasons
ErrOk == "ok"
ErrPrice == "Daily price must be greater than 0"
ErrDeposit == "Deposit must be greater than 0"
ErrNotFound == "Book does not exist"
ErrNotAvailable == "Book is not available for rent"
ErrSelfRental == "Owner cannot rent their own book"
ErrPayment == "Insufficient payment"
ErrNotRented == "Book is not rented"
ErrNotHolder == "Only the renter can return the book"
ErrPayOwner == "Failed to send payment to owner"
ErrRefundExcess == "Failed to refund excess payment to renter"
ErrRefundRenter == "Failed to send refund to renter"
ErrPayDeposit == "Failed to send deposit to owner"
ErrReentrant == "ReentrancyGuard: reentrant call"
ErrPanic == "Panic(0x11)"

VARIABLES
    now,            \* block.timestamp
    books,          \* mapping(uint256 => Book)
    bookIdCounter,  \* _bookIdCounter
    userRentals,    \* mapping(address => uint256[])
    balance,        \* address(this).balance
    status,         \* ReentrancyGuard._status
    pc,             \* "idle", or the value transfer the call in flight is waiting on
    cur,            \* the call in flight: its arguments and the pending transfer
    snap,           \* the state a revert of the call in flight restores
    transfers,      \* value transfers made by the current (or last) transaction
    logs,           \* events emitted by the current (or last) transaction
    last,           \* outcome of the last completed top-level call
    inner,          \* outcome of the last call made from inside a transfer callback
    earlier,        \* the earlier revision of the contract (without late fees)
    ui              \* the front-end BookRentalProvider

\* the variables of the late-fee revision
ledgerVars == <<now, books, bookIdCounter, userRentals, balance, status, pc, cur, snap,
                transfers, logs, last, inner>>

vars == <<now, books, bookIdCounter, userRentals, balance, status, pc, cur, snap,
          transfers, logs, last, inner, earlier, ui>>

\* --------------------------------------------------------------- arithmetic
Panic == 0 - 1

\* variant: the addition wraps around
AddWrapping(a, b) == IF a = Panic \/ b = Panic THEN Panic
                     ELSE (a + b) % (MaxUint + 1)

\* checked arithmetic of Solidity 0.8: a result outside 0..MaxUint reverts
Add(a, b) == IF a = Panic \/ b = Panic THEN Panic
             ELSE IF a > MaxUint - b THEN Panic ELSE a + b

Sub(a, b) == IF a = Panic \/ b = Panic THEN Panic
             ELSE IF b > a THEN Panic ELSE a - b

Mul(a, b) == IF a = Panic \/ b = Panic THEN Panic
             ELSE IF a = 0 \/ b = 0 THEN 0
             ELSE IF a > MaxUint \div b THEN Panic ELSE a * b

Div(a, b) == IF a = Panic \/ b = Panic THEN Panic ELSE a \div b

\* ------------------------------------------------------------------- records
NoBook == [title |-> "", dailyPrice |-> 0, deposit |-> 0, owner |-> ZERO,
           renter |-> ZERO, rentedAt |-> 0, rentalPeriod |-> 0,
           isAvailable |-> FALSE, metadataUri |-> ""]

NoCall == [op |-> "none", sender |-> ZERO, id |-> 0, value |-> 0, to |-> ZERO, amount |-> 0,
           rentalDays |-> 0, lateFee |-> 0, cost |-> 0, refund |-> 0, returnedBy |-> ZERO]
NoSnap == [books |-> <<>>, userRentals |-> <<>>, bookIdCounter |-> 0, balance |-> 0]
NoLast == [op |-> "none", sender |-> ZERO, id |-> 0, err |-> ErrOk,
           rentalDays |-> 0, lateFee |-> 0, cost |-> 0, refund |-> 0, returnedBy |-> ZERO]
NoInner == [op |-> "none", err |-> ErrOk]

Result(op, sender, id, err) ==
    [op |-> op, sender |-> sender, id |-> id, err |-> err,
     rentalDays |-> 0, lateFee |-> 0, cost |-> 0, refund |-> 0, returnedBy |-> ZERO]

\* variant: the holder index is saved empty
SavedWithoutRentals == [books |-> books, userRentals |-> [u \in Users |-> <<>>],
                        bookIdCounter |-> bookIdCounter, balance |-> balance]

\* variant: the value held is saved as nothing
SavedWithoutEscrow == [books |-> books, userRentals |-> userRentals,
                       bookIdCounter |-> bookIdCounter, balance |-> 0]

\* the state a revert restores
Saved == [books |-> books, userRentals |-> userRentals,
          bookIdCounter |-> bookIdCounter, balance |-> balance]

\* total value the transfers of seq t moved to identity a
RECURSIVE Paid(_, _)
Paid(t, a) == IF t = <<>> THEN 0
              ELSE (IF Head(t).to = a THEN Head(t).amount ELSE 0) + Paid(Tail(t), a)

\* --------------------------------------------------------- fee computation
\* variant: whole days elapsed plus one
rentalDaysFloorPlusOne(book, t) ==
    Add(Div(Sub(t, book.rentedAt), DAY), 1)

\* returnBook: uint256 rentalDays = (block.timestamp - book.rentedAt + 86399) / 86400,
\* raised to 1 when it is 0
rentalDays(book, t) ==
    LET d == Div(Add(Sub(t, book.rentedAt), DayMinusOne), DAY)
    IN  IF d = 0 THEN 1 ELSE d

\* variant: late days rounded down
lateFeeRoundedDown(book, t) ==
    IF t > book.rentalPeriod
    THEN Mul(book.dailyPrice, Div(Sub(t, book.rentalPeriod), DAY))
    ELSE 0

\* variant: the late days are counted from the day the rental period ends
lateFeeFromLastDay(book, t) ==
    IF t >= book.rentalPeriod
    THEN Mul(book.dailyPrice, Add(Div(Sub(t, book.rentalPeriod), DAY), 1))
    ELSE 0

\* returnBook: lateFee = dailyPrice * lateDays when block.timestamp > rentalPeriod
lateFee(book, t) ==
    IF t > book.rentalPeriod
    THEN Mul(book.dailyPrice, Div(Add(Sub(t, book.rentalPeriod), DayMinusOne), DAY))
    ELSE 0

\* variant: the late fee is left out of the cost
totalRentalCostNoLateFee(book, t) ==
    Mul(book.dailyPrice, Sub(rentalDays(book, t), 1))

\* returnBook: totalRentalCost = dailyPrice * (rentalDays - 1) + lateFee
totalRentalCost(book, t) ==
    Add(Mul(book.dailyPrice, Sub(rentalDays(book, t), 1)), lateFee(book, t))

\* variant: the refund is the whole deposit whatever is owed
refundAmountWholeDeposit(book, t) == book.deposit

\* returnBook: uint256 refundAmount = book.deposit - totalRentalCost (checked)
refundAmount(book, t) == Sub(book.deposit, totalRentalCost(book, t))

\* variant: the first day's price is left out of the amount due
RentDueDepositOnly(book) == book.deposit

\* rentBook: book.deposit + book.dailyPrice
RentDue(book) == Add(book.deposit, book.dailyPrice)

\* ---------------------------------------------------------- holder index
\* position of the first occurrence of bookId in rentals, 0 when absent
FirstIndex(rentals, bookId) ==
    IF \E i \in 1..Len(rentals) : rentals[i] = bookId
    THEN CHOOSE i \in 1..Len(rentals) :
            rentals[i] = bookId /\ \A j \in 1..(i - 1) : rentals[j] # bookId
    ELSE 0

\* variant: pops the last element without moving it into the found slot
removeLastFromUserRentals(user, bookId) ==
    LET rentals == userRentals[user]
        i == FirstIndex(rentals, bookId)
    IN  IF i = 0 THEN userRentals
        ELSE [userRentals EXCEPT ![user] = SubSeq(rentals, 1, Len(rentals) - 1)]

\* variant: overwrites the found slot with the last element but never pops
removeFromUserRentalsNoPop(user, bookId) ==
    LET rentals == userRentals[user]
        i == FirstIndex(rentals, bookId)
    IN  IF i = 0 THEN userRentals
        ELSE [userRentals EXCEPT ![user] = [rentals EXCEPT ![i] = rentals[Len(rentals)]]]

\* variant: drops the found slot and every slot after it
removeFromUserRentalsTruncating(user, bookId) ==
    LET rentals == userRentals[user]
        i == FirstIndex(rentals, bookId)
    IN  IF i = 0 THEN userRentals
        ELSE [userRentals EXCEPT ![user] = SubSeq(rentals, 1, i - 1)]

\* variant: the array is left as it is
removeFromUserRentalsNothing(user, bookId) == userRentals

\* removeFromUserRentals: overwrite the found slot with the last element, pop
removeFromUserRentals(user, bookId) ==
    LET rentals == userRentals[user]
        i == FirstIndex(rentals, bookId)
    IN  IF i = 0 THEN userRentals
        ELSE [userRentals EXCEPT ![user] =
                 SubSeq([rentals EXCEPT ![i] = rentals[Len(rentals)]], 1, Len(rentals) - 1)]

\* variant: nothing is pushed
pushUserRentalsNothing(user, bookId) == userRentals

\* rentBook, "Add to user's rentals": userRentals[msg.sender].push(_bookId)
pushUserRentals(user, bookId) == [userRentals EXCEPT ![user] = Append(@, bookId)]

\* getUserRentals, as a set
getUserRentals(user) == {userRentals[user][i] : i \in 1..Len(userRentals[user])}

\* ------------------------------------------------------------- the queries
\* variant: the loop starts at id 1
getAllBooksFromOne ==
    LET n == bookIdCounter IN
    [ids |-> [k \in 1..n |-> k],
     titles |-> [k \in 1..n |-> books[k].title],
     dailyPrices |-> [k \in 1..n |-> books[k].dailyPrice],
     deposits |-> [k \in 1..n |-> books[k].deposit],
     owners |-> [k \in 1..n |-> books[k].owner],
     availability |-> [k \in 1..n |-> books[k].isAvailable],
     metadataUris |-> [k \in 1..n |-> books[k].metadataUri]]

\* getAllBooks: seven arrays of length _bookIdCounter, entry i (here at
\* position i + 1) read from books[i]
getAllBooks ==
    LET n == bookIdCounter IN
    [ids |-> [k \in 1..n |-> k - 1],
     titles |-> [k \in 1..n |-> books[k - 1].title],
     dailyPrices |-> [k \in 1..n |-> books[k - 1].dailyPrice],
     deposits |-> [k \in 1..n |-> books[k - 1].deposit],
     owners |-> [k \in 1..n |-> books[k - 1].owner],
     availability |-> [k \in 1..n |-> books[k - 1].isAvailable],
     metadataUris |-> [k \in 1..n |-> books[k - 1].metadataUri]]

\* getBookDetails: the fields of books[_bookId]; the function has no require,
\* so the call never reverts
getBookDetails(bookId) ==
    LET book == books[bookId] IN
    [err |-> ErrOk, title |-> book.title, dailyPrice |-> book.dailyPrice,
     deposit |-> book.deposit, owner |-> book.owner, renter |-> book.renter,
     rentedAt |-> book.rentedAt, isAvailable |-> book.isAvailable,
     metadataUri |-> book.metadataUri]

\* ------------------------------------------------------------ the guards
\* modifier nonReentrant
NonReentrant == IF status = "ENTERED" THEN ErrReentrant ELSE ErrOk

\* variant: the deposit require is missing
ListErrorDepositUnchecked(dailyPrice, deposit) ==
    IF ~(dailyPrice > 0) THEN ErrPrice
    ELSE ErrOk

\* listBook: the two require statements
ListError(dailyPrice, deposit) ==
    IF ~(dailyPrice > 0) THEN ErrPrice
    ELSE IF ~(deposit > 0) THEN ErrDeposit
    ELSE ErrOk

\* variant: the availability require is missing
RentErrorNoAvailability(sender, bookId, value) ==
    LET book == books[bookId] IN
    IF NonReentrant # ErrOk THEN NonReentrant
    ELSE IF ~(book.owner # ZERO) THEN ErrNotFound
    ELSE IF ~(sender # book.owner) THEN ErrSelfRental
    ELSE IF RentDue(book) = Panic THEN ErrPanic
    ELSE IF ~(value >= RentDue(book)) THEN ErrPayment
    ELSE IF Add(now, DAY) = Panic THEN ErrPanic
    ELSE ErrOk

\* variant: the owner may rent
RentErrorOwnerMayRent(sender, bookId, value) ==
    LET book == books[bookId] IN
    IF NonReentrant # ErrOk THEN NonReentrant
    ELSE IF ~(book.owner # ZERO) THEN ErrNotFound
    ELSE IF ~book.isAvailable THEN ErrNotAvailable
    ELSE IF RentDue(book) = Panic THEN ErrPanic
    ELSE IF ~(value >= RentDue(book)) THEN ErrPayment
    ELSE IF Add(now, DAY) = Panic THEN ErrPanic
    ELSE ErrOk

\* variant: a payment equal to the amount due is refused
RentErrorStrictPayment(sender, bookId, value) ==
    LET book == books[bookId] IN
    IF NonReentrant # ErrOk THEN NonReentrant
    ELSE IF ~(book.owner # ZERO) THEN ErrNotFound
    ELSE IF ~book.isAvailable THEN ErrNotAvailable
    ELSE IF ~(sender # book.owner) THEN ErrSelfRental
    ELSE IF RentDue(book) = Panic THEN ErrPanic
    ELSE IF ~(value > RentDue(book)) THEN ErrPayment
    ELSE IF Add(now, DAY) = Panic THEN ErrPanic
    ELSE ErrOk

\* rentBook: nonReentrant, the four require statements in order, and the
\* checked addition block.timestamp + 1 days
RentError(sender, bookId, value) ==
    LET book == books[bookId] IN
    IF NonReentrant # ErrOk THEN NonReentrant
    ELSE IF ~(book.owner # ZERO) THEN ErrNotFound
    ELSE IF ~book.isAvailable THEN ErrNotAvailable
    ELSE IF ~(sender # book.owner) THEN ErrSelfRental
    ELSE IF RentDue(book) = Panic THEN ErrPanic
    ELSE IF ~(value >= RentDue(book)) THEN ErrPayment
    ELSE IF Add(now, DAY) = Panic THEN ErrPanic
    ELSE ErrOk

\* variant: any caller may return
ReturnErrorAnyCaller(sender, bookId) ==
    LET book == books[bookId] IN
    IF NonReentrant # ErrOk THEN NonReentrant
    ELSE IF ~(book.owner # ZERO) THEN ErrNotFound
    ELSE IF ~(~book.isAvailable) THEN ErrNotRented
    ELSE IF refundAmount(book, now) = Panic THEN ErrPanic
    ELSE ErrOk

\* variant: the require that the book is rented is missing
ReturnErrorRentedUnchecked(sender, bookId) ==
    LET book == books[bookId] IN
    IF NonReentrant # ErrOk THEN NonReentrant
    ELSE IF ~(book.owner # ZERO) THEN ErrNotFound
    ELSE IF ~(sender = book.renter) THEN ErrNotHolder
    ELSE IF refundAmount(book, now) = Panic THEN ErrPanic
    ELSE ErrOk

\* returnBook: nonReentrant, the three require statements, the fee arithmetic
ReturnError(sender, bookId) ==
    LET book == books[bookId] IN
    IF NonReentrant # ErrOk THEN NonReentrant
    ELSE IF ~(book.owner # ZERO) THEN ErrNotFound
    ELSE IF ~(~book.isAvailable) THEN ErrNotRented
    ELSE IF ~(sender = book.renter) THEN ErrNotHolder
    ELSE IF refundAmount(book, now) = Panic THEN ErrPanic
    ELSE ErrOk

\* ------------------------------------------------------------------- events
BookListed(bookId, b) ==
    [name |-> "BookListed", bookId |-> bookId, title |-> b.title,
     dailyPrice |-> b.dailyPrice, deposit |-> b.deposit, owner |-> b.owner,
     metadataUri |-> b.metadataUri]

BookRented(bookId, renter, rentedAt, deposit) ==
    [name |-> "BookRented", bookId |-> bookId, renter |-> renter,
     rentedAt |-> rentedAt, deposit |-> deposit]

\* variant: the event reports the late fee in place of the refund
BookReturnedFeeAsRefund(bookId, renter, returnedAt, refund, fee) ==
    [name |-> "BookReturned", bookId |-> bookId, renter |-> renter,
     returnedAt |-> returnedAt, refundAmount |-> fee, lateFee |-> fee]

\* event BookReturned as returnBook emits it
BookReturned(bookId, renter, returnedAt, refund, fee) ==
    [name |-> "BookReturned", bookId |-> bookId, renter |-> renter,
     returnedAt |-> returnedAt, refundAmount |-> refund, lateFee |-> fee]

\* ------------------------------------------------------------------ listBook
\* variant: the new item is stored as not available
NewBookUnavailable(sender, title, dailyPrice, deposit, uri) ==
    [title |-> title, dailyPrice |-> dailyPrice, deposit |-> deposit, owner |-> sender,
     renter |-> ZERO, rentedAt |-> 0, rentalPeriod |-> 0, isAvailable |-> FALSE,
     metadataUri |-> uri]

\* listBook: the Book stored for the arguments of the call
NewBook(sender, title, dailyPrice, deposit, uri) ==
    [title |-> title, dailyPrice |-> dailyPrice, deposit |-> deposit, owner |-> sender,
     renter |-> ZERO, rentedAt |-> 0, rentalPeriod |-> 0, isAvailable |-> TRUE,
     metadataUri |-> uri]

\* variant: the id counter is not advanced
ListEffectCounterStuck(sender, title, dailyPrice, deposit, uri) ==
    /\ books' = [books EXCEPT ![bookIdCounter] =
                    NewBook(sender, title, dailyPrice, deposit, uri)]
    /\ bookIdCounter' = bookIdCounter
    /\ logs' = Append(IF pc = "idle" THEN <<>> ELSE logs,
                      BookListed(bookIdCounter,
                                 NewBook(sender, title, dailyPrice, deposit, uri)))

\* the body of listBook: what it does to the ledger when its requires pass
ListEffect(sender, title, dailyPrice, deposit, uri) ==
    /\ books' = [books EXCEPT ![bookIdCounter] =
                    NewBook(sender, title, dailyPrice, deposit, uri)]
    /\ bookIdCounter' = bookIdCounter + 1
    /\ logs' = Append(IF pc = "idle" THEN <<>> ELSE logs,
                      BookListed(bookIdCounter,
                                 NewBook(sender, title, dailyPrice, deposit, uri)))

\* listBook as a transaction of its own
listBook(sender, title, dailyPrice, deposit, uri) ==
    /\ pc = "idle"
    /\ LET err == ListError(dailyPrice, deposit) IN
       /\ err = ErrOk => bookIdCounter < MaxBooks
       /\ IF err = ErrOk
          THEN ListEffect(sender, title, dailyPrice, deposit, uri)
          ELSE /\ UNCHANGED <<books, bookIdCounter>>
               /\ logs' = <<>>
       /\ last' = Result("list", sender, bookIdCounter, err)
    /\ transfers' = <<>>
    /\ inner' = NoInner
    /\ UNCHANGED <<now, userRentals, balance, status, pc, cur, snap>>

\* ------------------------------------------------------------------ rentBook
\* variant: the book is left marked available
RentedBookStillAvailable(book, sender) ==
    [book EXCEPT !.renter = sender,
                 !.rentedAt = now,
                 !.rentalPeriod = Add(now, DAY)]

\* variant: the renter becomes the owner
RentedBookOwnedByRenter(book, sender) ==
    [book EXCEPT !.renter = sender,
                 !.rentedAt = now,
                 !.isAvailable = FALSE,
                 !.rentalPeriod = Add(now, DAY),
                 !.owner = sender]

\* variant: the due time is not stored
RentedBookNoDueTime(book, sender) ==
    [book EXCEPT !.renter = sender,
                 !.rentedAt = now,
                 !.isAvailable = FALSE]

\* rentBook, "Update book status": the record of a book once sender has rented it
RentedBook(book, sender) ==
    [book EXCEPT !.renter = sender,
                 !.rentedAt = now,
                 !.isAvailable = FALSE,
                 !.rentalPeriod = Add(now, DAY)]

\* the identity other than sender whose returnBook of bookId was the
\* transaction before this one and went through, ZERO when there is none
\* (kept for observation only)
ReturnedBy(bookId, sender) ==
    IF last.op = "return" /\ last.err = ErrOk /\ last.id = bookId /\ last.sender # sender
    THEN last.sender ELSE ZERO

\* rentBook up to its first value transfer (or to the failing require)
rentBook(sender, bookId, value) ==
    /\ pc = "idle"
    /\ LET err == RentError(sender, bookId, value)
           book == books[bookId]
       IN  IF err # ErrOk
           THEN /\ last' = Result("rent", sender, bookId, err)
                /\ UNCHANGED <<books, userRentals, balance, status, pc, cur, snap>>
           ELSE /\ snap' = Saved
                /\ status' = "ENTERED"
                /\ balance' = balance + value
                /\ books' = [books EXCEPT ![bookId] = RentedBook(book, sender)]
                /\ userRentals' = pushUserRentals(sender, bookId)
                /\ pc' = "rent_owner"
                /\ cur' = [NoCall EXCEPT !.op = "rent", !.sender = sender, !.id = bookId,
                                         !.value = value, !.to = book.owner,
                                         !.amount = book.dailyPrice,
                                         !.returnedBy = ReturnedBy(bookId, sender)]
                /\ last' = NoLast
    /\ transfers' = <<>>
    /\ logs' = <<>>
    /\ inner' = NoInner
    /\ UNCHANGED <<now, bookIdCounter>>

\* the pending transfer succeeds
Sent == /\ cur.amount <= balance
        /\ balance' = balance - cur.amount
        /\ transfers' = Append(transfers, [to |-> cur.to, amount |-> cur.amount])

\* rentBook after its last transfer: emit BookRented and return
RentDone ==
    /\ logs' = Append(logs, BookRented(cur.id, cur.sender, now, books[cur.id].deposit))
    /\ last' = [Result("rent", cur.sender, cur.id, ErrOk) EXCEPT
                    !.returnedBy = cur.returnedBy]
    /\ status' = "NOT_ENTERED"
    /\ pc' = "idle"
    /\ cur' = NoCall
    /\ snap' = NoSnap
    /\ inner' = NoInner

\* rentBook: the owner took the first day's payment
RentOwnerPaid ==
    /\ pc = "rent_owner"
    /\ Sent
    /\ IF cur.value > RentDue(books[cur.id])
       THEN /\ pc' = "rent_excess"
            /\ cur' = [cur EXCEPT !.to = cur.sender,
                                  !.amount = Sub(cur.value, RentDue(books[cur.id]))]
            /\ UNCHANGED <<logs, last, status, snap, inner>>
       ELSE RentDone
    /\ UNCHANGED <<now, books, bookIdCounter, userRentals>>

\* rentBook: the renter took the excess payment back
RentExcessRefunded ==
    /\ pc = "rent_excess"
    /\ Sent
    /\ RentDone
    /\ UNCHANGED <<now, books, bookIdCounter, userRentals>>

\* ---------------------------------------------------------------- returnBook
\* returnBook up to its first value transfer (or to the failing require)
returnBook(sender, bookId) ==
    /\ pc = "idle"
    /\ LET err == ReturnError(sender, bookId)
           book == books[bookId]
           cost == totalRentalCost(book, now)
       IN  IF err # ErrOk
           THEN /\ last' = Result("return", sender, bookId, err)
                /\ UNCHANGED <<status, pc, cur, snap>>
           ELSE /\ snap' = Saved
                /\ status' = "ENTERED"
                /\ pc' = IF cost < book.deposit THEN "ret_owner" ELSE "ret_deposit"
                /\ cur' = [NoCall EXCEPT !.op = "return", !.sender = sender, !.id = bookId,
                                         !.to = book.owner,
                                         !.amount = IF cost < book.deposit THEN cost
                                                    ELSE book.deposit,
                                         !.rentalDays = rentalDays(book, now),
                                         !.lateFee = lateFee(book, now),
                                         !.cost = cost,
                                         !.refund = refundAmount(book, now)]
                /\ last' = NoLast
    /\ transfers' = <<>>
    /\ logs' = <<>>
    /\ inner' = NoInner
    /\ UNCHANGED <<now, books, bookIdCounter, userRentals, balance>>

\* variant: the reset forgets the availability flag
ReturnedBookStaysUnavailable(book) ==
    [book EXCEPT !.renter = ZERO,
                 !.rentedAt = 0]

\* variant: the reset forgets the renter
ReturnedBookKeepsRenter(book) ==
    [book EXCEPT !.isAvailable = TRUE,
                 !.rentedAt = 0]

\* returnBook, "Reset book status" and "Reset rental data": the record of a
\* book once it is returned (rentalPeriod is not among the fields reset)
ReturnedBook(book) ==
    [book EXCEPT !.isAvailable = TRUE,
                 !.renter = ZERO,
                 !.rentedAt = 0]

\* returnBook after its transfers: reset the book, drop it from the holder's
\* rentals, emit BookReturned
ReturnDone ==
    /\ books' = [books EXCEPT ![cur.id] = ReturnedBook(books[cur.id])]
    /\ userRentals' = removeFromUserRentals(cur.sender, cur.id)
    /\ logs' = Append(logs, BookReturned(cur.id, cur.sender, now, cur.refund, cur.lateFee))
    /\ last' = [Result("return", cur.sender, cur.id, ErrOk) EXCEPT
                    !.rentalDays = cur.rentalDays, !.lateFee = cur.lateFee,
                    !.cost = cur.cost, !.refund = cur.refund]
    /\ status' = "NOT_ENTERED"
    /\ pc' = "idle"
    /\ cur' = NoCall
    /\ snap' = NoSnap
    /\ inner' = NoInner

\* returnBook, totalRentalCost < deposit: the owner took the rental cost
ReturnOwnerPaid ==
    /\ pc = "ret_owner"
    /\ Sent
    /\ IF cur.refund > 0
       THEN /\ pc' = "ret_renter"
            /\ cur' = [cur EXCEPT !.to = cur.sender, !.amount = cur.refund]
            /\ UNCHANGED <<books, userRentals, logs, last, status, snap, inner>>
       ELSE ReturnDone
    /\ UNCHANGED <<now, bookIdCounter>>

\* returnBook, totalRentalCost < deposit: the renter took the refund
ReturnRenterRefunded ==
    /\ pc = "ret_renter"
    /\ Sent
    /\ ReturnDone
    /\ UNCHANGED <<now, bookIdCounter>>

\* returnBook, totalRentalCost >= deposit: the owner took the whole deposit
ReturnDepositPaid ==
    /\ pc = "ret_deposit"
    /\ Sent
    /\ ReturnDone
    /\ UNCHANGED <<now, bookIdCounter>>

\* ------------------------------------------------------- failing transfers
FailReason == CASE pc = "rent_owner" -> ErrPayOwner
                []  pc = "rent_excess" -> ErrRefundExcess
                []  pc = "ret_owner" -> ErrPayOwner
                []  pc = "ret_renter" -> ErrRefundRenter
                []  pc = "ret_deposit" -> ErrPayDeposit
                []  OTHER -> ErrOk

\* variant: the item records are not restored
RevertKeepsBooks(err) ==
    /\ books' = books
    /\ userRentals' = snap.userRentals
    /\ bookIdCounter' = snap.bookIdCounter
    /\ balance' = snap.balance
    /\ status' = "NOT_ENTERED"
    /\ transfers' = <<>>
    /\ logs' = <<>>
    /\ last' = Result(cur.op, cur.sender, cur.id, err)
    /\ pc' = "idle"
    /\ cur' = NoCall
    /\ snap' = NoSnap
    /\ inner' = NoInner

\* variant: the value already sent stays with its recipients
RevertKeepsTransfers(err) ==
    /\ books' = snap.books
    /\ userRentals' = snap.userRentals
    /\ bookIdCounter' = snap.bookIdCounter
    /\ balance' = balance
    /\ status' = "NOT_ENTERED"
    /\ transfers' = transfers
    /\ logs' = <<>>
    /\ last' = Result(cur.op, cur.sender, cur.id, err)
    /\ pc' = "idle"
    /\ cur' = NoCall
    /\ snap' = NoSnap
    /\ inner' = NoInner

\* revert of the transaction in flight: every effect since its start is undone
Revert(err) ==
    /\ books' = snap.books
    /\ userRentals' = snap.userRentals
    /\ bookIdCounter' = snap.bookIdCounter
    /\ balance' = snap.balance
    /\ status' = "NOT_ENTERED"
    /\ transfers' = <<>>
    /\ logs' = <<>>
    /\ last' = Result(cur.op, cur.sender, cur.id, err)
    /\ pc' = "idle"
    /\ cur' = NoCall
    /\ snap' = NoSnap
    /\ inner' = NoInner

\* the recipient of the pending transfer makes it fail: require(success, ..)
TransferFails ==
    /\ pc # "idle"
    /\ Revert(FailReason)
    /\ UNCHANGED now

\* ------------------------------------------- calls from inside a callback
\* the recipient of the pending transfer calls listBook
ReenterListBook(title, dailyPrice, deposit, uri) ==
    /\ pc # "idle"
    /\ cur.to \in Listers
    /\ LET err == ListError(dailyPrice, deposit) IN
       /\ err = ErrOk => bookIdCounter < MaxBooks
       /\ IF err = ErrOk
          THEN ListEffect(cur.to, title, dailyPrice, deposit, uri)
          ELSE UNCHANGED <<books, bookIdCounter, logs>>
       /\ inner' = [op |-> "list", err |-> err]
    /\ UNCHANGED <<now, userRentals, balance, status, pc, cur, snap, transfers, last>>

\* the recipient of the pending transfer calls rentBook: nonReentrant reverts it
ReenterRentBook(bookId, value) ==
    /\ pc # "idle"
    /\ RentError(cur.to, bookId, value) = ErrReentrant
    /\ inner' = [op |-> "rent", err |-> RentError(cur.to, bookId, value)]
    /\ UNCHANGED <<now, books, bookIdCounter, userRentals, balance, status, pc, cur, snap,
                   transfers, logs, last>>

\* the recipient of the pending transfer calls returnBook: nonReentrant reverts it
ReenterReturnBook(bookId) ==
    /\ pc # "idle"
    /\ ReturnError(cur.to, bookId) = ErrReentrant
    /\ inner' = [op |-> "return", err |-> ReturnError(cur.to, bookId)]
    /\ UNCHANGED <<now, books, bookIdCounter, userRentals, balance, status, pc, cur, snap,
                   transfers, logs, last>>

\* --------------------------------------------------------------------- time
\* a later block: block.timestamp moves forward between transactions
Tick(t) ==
    /\ pc = "idle"
    /\ t > now
    /\ now' = t
    /\ UNCHANGED <<books, bookIdCounter, userRentals, balance, status, pc, cur, snap,
                   transfers, logs, last, inner>>

\* payments offered to rentBook for a book: one short, exact, in excess
Payments(bookId) ==
    LET due == books[bookId].deposit + books[bookId].dailyPrice
    IN  IF books[bookId].owner = ZERO THEN {Price}
        ELSE {due - 1, due, due + Excess}

\* value held for the rented items: one deposit each
EscrowDue(bs) ==
    LET RECURSIVE Sum(_)
        Sum(S) == IF S = {} THEN 0
                  ELSE LET i == CHOOSE x \in S : TRUE
                       IN  (IF bs[i].renter # ZERO THEN bs[i].deposit ELSE 0)
                           + Sum(S \ {i})
    IN  Sum(BookIds)

\* =================================== the revision without late fees
\* The earlier revision of the contract is kept in the one variable earlier:
\* a record of its storage, the value it holds and the call in flight. Its
\* functions are operators from such a record to the record after the step.
NoBookEarlier == [title |-> "", dailyPrice |-> 0, deposit |-> 0, owner |-> ZERO,
                  renter |-> ZERO, rentedAt |-> 0, isAvailable |-> FALSE]

NoCallEarlier == [op |-> "none", sender |-> ZERO, id |-> 0, value |-> 0, to |-> ZERO,
                  amount |-> 0, refund |-> 0]
NoLastEarlier == [op |-> "none", sender |-> ZERO, id |-> 0, err |-> ErrOk, refund |-> 0]

ResultEarlier(op, sender, id, err) ==
    [op |-> op, sender |-> sender, id |-> id, err |-> err, refund |-> 0]

InitEarlier ==
    [books |-> [i \in BookIds |-> NoBookEarlier],
     bookIdCounter |-> 0,
     userRentals |-> [u \in Users |-> <<>>],
     balance |-> 0,
     status |-> "NOT_ENTERED",
     pc |-> "idle",
     cur |-> NoCallEarlier,
     snap |-> NoSnap,
     transfers |-> <<>>,
     logs |-> <<>>,
     last |-> NoLastEarlier]

\* the state a revert restores
SavedEarlier(e) == [books |-> e.books, userRentals |-> e.userRentals,
                    bookIdCounter |-> e.bookIdCounter, balance |-> e.balance]

\* returnBook: uint256 rentalDays = (block.timestamp - book.rentedAt + 86399) / 86400,
\* raised to 1 when it is 0
rentalDaysEarlier(book, t) ==
    LET d == Div(Add(Sub(t, book.rentedAt), DayMinusOne), DAY)
    IN  IF d = 0 THEN 1 ELSE d

\* returnBook: remainingRentalCost = dailyPrice * (rentalDays - 1)
remainingRentalCost(book, t) ==
    Mul(book.dailyPrice, Sub(rentalDaysEarlier(book, t), 1))

\* returnBook: refundAmount = deposit - remainingRentalCost when the cost is
\* below the deposit, 0 otherwise
refundAmountEarlier(book, t) ==
    IF remainingRentalCost(book, t) < book.deposit
    THEN Sub(book.deposit, remainingRentalCost(book, t))
    ELSE 0

\* removeFromUserRentals: overwrite the found slot with the last element, pop
removeFromUserRentalsEarlier(rentals, bookId) ==
    LET i == FirstIndex(rentals, bookId)
    IN  IF i = 0 THEN rentals
        ELSE SubSeq([rentals EXCEPT ![i] = rentals[Len(rentals)]], 1, Len(rentals) - 1)

\* listBook: the two require statements
ListErrorEarlier(dailyPrice, deposit) ==
    IF ~(dailyPrice > 0) THEN ErrPrice
    ELSE IF ~(deposit > 0) THEN ErrDeposit
    ELSE ErrOk

\* rentBook: nonReentrant and the four require statements in order
RentErrorEarlier(e, sender, bookId, value) ==
    LET book == e.books[bookId] IN
    IF e.status = "ENTERED" THEN ErrReentrant
    ELSE IF ~(book.owner # ZERO) THEN ErrNotFound
    ELSE IF ~book.isAvailable THEN ErrNotAvailable
    ELSE IF ~(sender # book.owner) THEN ErrSelfRental
    ELSE IF Add(book.deposit, book.dailyPrice) = Panic THEN ErrPanic
    ELSE IF ~(value >= Add(book.deposit, book.dailyPrice)) THEN ErrPayment
    ELSE ErrOk

\* returnBook: nonReentrant, the three require statements, the cost arithmetic
ReturnErrorEarlier(e, sender, bookId) ==
    LET book == e.books[bookId] IN
    IF e.status = "ENTERED" THEN ErrReentrant
    ELSE IF ~(book.owner # ZERO) THEN ErrNotFound
    ELSE IF ~(~book.isAvailable) THEN ErrNotRented
    ELSE IF ~(sender = book.renter) THEN ErrNotHolder
    ELSE IF remainingRentalCost(book, now) = Panic THEN ErrPanic
    ELSE ErrOk

BookListedEarlier(bookId, b) ==
    [name |-> "BookListed", bookId |-> bookId, title |-> b.title,
     dailyPrice |-> b.dailyPrice, deposit |-> b.deposit, owner |-> b.owner]

BookReturnedEarlier(bookId, renter, returnedAt, refund) ==
    [name |-> "BookReturned", bookId |-> bookId, renter |-> renter,
     returnedAt |-> returnedAt, refundAmount |-> refund]

\* listBook: the Book stored for the arguments of the call
NewBookEarlier(sender, title, dailyPrice, deposit) ==
    [title |-> title, dailyPrice |-> dailyPrice, deposit |-> deposit, owner |-> sender,
     renter |-> ZERO, rentedAt |-> 0, isAvailable |-> TRUE]

\* listBook as a transaction
listBookEarlier(e, sender, title, dailyPrice, deposit) ==
    LET err == ListErrorEarlier(dailyPrice, deposit)
        book == NewBookEarlier(sender, title, dailyPrice, deposit)
    IN  IF err # ErrOk
        THEN [e EXCEPT !.last = ResultEarlier("list", sender, e.bookIdCounter, err),
                       !.transfers = <<>>, !.logs = <<>>]
        ELSE [e EXCEPT !.books[e.bookIdCounter] = book,
                       !.bookIdCounter = e.bookIdCounter + 1,
                       !.logs = <<BookListedEarlier(e.bookIdCounter, book)>>,
                       !.transfers = <<>>,
                       !.last = ResultEarlier("list", sender, e.bookIdCounter, ErrOk)]

\* rentBook, "Update book status"
RentedBookEarlier(book, sender) ==
    [book EXCEPT !.renter = sender,
                 !.rentedAt = now,
                 !.isAvailable = FALSE]

\* rentBook up to its value transfer (or to the failing require): the whole
\* msg.value is taken in, the first day's payment is about to go to the owner
rentBookEarlier(e, sender, bookId, value) ==
    LET err == RentErrorEarlier(e, sender, bookId, value)
        book == e.books[bookId]
    IN  IF err # ErrOk
        THEN [e EXCEPT !.last = ResultEarlier("rent", sender, bookId, err),
                       !.transfers = <<>>, !.logs = <<>>]
        ELSE [e EXCEPT !.snap = SavedEarlier(e),
                       !.status = "ENTERED",
                       !.balance = e.balance + value,
                       !.books[bookId] = RentedBookEarlier(book, sender),
                       !.userRentals[sender] = Append(e.userRentals[sender], bookId),
                       !.pc = "rent_owner",
                       !.cur = [NoCallEarlier EXCEPT !.op = "rent", !.sender = sender,
                                                     !.id = bookId, !.value = value,
                                                     !.to = book.owner,
                                                     !.amount = book.dailyPrice],
                       !.last = NoLastEarlier,
                       !.transfers = <<>>, !.logs = <<>>]

\* the pending transfer succeeds
SentEarlier(e) ==
    [e EXCEPT !.balance = e.balance - e.cur.amount,
              !.transfers = Append(e.transfers, [to |-> e.cur.to, amount |-> e.cur.amount])]

\* the call in flight returns
ReturnsEarlier(e, result) ==
    [e EXCEPT !.last = result, !.status = "NOT_ENTERED", !.pc = "idle",
              !.cur = NoCallEarlier, !.snap = NoSnap]

\* rentBook: the owner took the first day's payment; emit BookRented and
\* return (nothing of msg.value is sent back)
RentOwnerPaidEarlier(e) ==
    LET s == SentEarlier(e) IN
    ReturnsEarlier([s EXCEPT !.logs = Append(s.logs,
                                 BookRented(e.cur.id, e.cur.sender, now,
                                            e.books[e.cur.id].deposit))],
                   ResultEarlier("rent", e.cur.sender, e.cur.id, ErrOk))

\* returnBook up to its first value transfer (or to the failing require)
returnBookEarlier(e, sender, bookId) ==
    LET err == ReturnErrorEarlier(e, sender, bookId)
        book == e.books[bookId]
        cost == remainingRentalCost(book, now)
    IN  IF err # ErrOk
        THEN [e EXCEPT !.last = ResultEarlier("return", sender, bookId, err),
                       !.transfers = <<>>, !.logs = <<>>]
        ELSE [e EXCEPT !.snap = SavedEarlier(e),
                       !.status = "ENTERED",
                       !.pc = "ret_owner",
                       !.cur = [NoCallEarlier EXCEPT !.op = "return", !.sender = sender,
                                                     !.id = bookId,
                                                     !.to = book.owner,
                                                     !.amount = IF cost < book.deposit
                                                                THEN cost
                                                                ELSE book.deposit,
                                                     !.refund = refundAmountEarlier(book, now)],
                       !.last = NoLastEarlier,
                       !.transfers = <<>>, !.logs = <<>>]

\* returnBook after its transfers: emit BookReturned, "Reset rental data"
ReturnDoneEarlier(e) ==
    ReturnsEarlier([e EXCEPT !.logs = Append(e.logs,
                                 BookReturnedEarlier(e.cur.id, e.cur.sender, now,
                                                     e.cur.refund)),
                             !.books[e.cur.id].renter = ZERO,
                             !.books[e.cur.id].rentedAt = 0],
                   [ResultEarlier("return", e.cur.sender, e.cur.id, ErrOk)
                       EXCEPT !.refund = e.cur.refund])

\* returnBook: the owner took the cost (or the whole deposit); "Reset book
\* status" and "Remove from user's rentals" follow at once, the refund to the
\* renter, if any, is the next transfer
ReturnOwnerPaidEarlier(e) ==
    LET s == SentEarlier(e)
        m == [s EXCEPT !.books[e.cur.id].isAvailable = TRUE,
                       !.userRentals[e.cur.sender] =
                           removeFromUserRentalsEarlier(e.userRentals[e.cur.sender],
                                                        e.cur.id)]
    IN  IF e.cur.refund > 0
        THEN [m EXCEPT !.pc = "ret_renter",
                       !.cur = [e.cur EXCEPT !.to = e.cur.sender, !.amount = e.cur.refund]]
        ELSE ReturnDoneEarlier(m)

\* returnBook: the renter took the refund
ReturnRenterRefundedEarlier(e) == ReturnDoneEarlier(SentEarlier(e))

\* the recipient of the pending transfer makes it fail: require(success, ..)
\* reverts the transaction
TransferFailsEarlier(e) ==
    [e EXCEPT !.books = e.snap.books,
              !.userRentals = e.snap.userRentals,
              !.bookIdCounter = e.snap.bookIdCounter,
              !.balance = e.snap.balance,
              !.status = "NOT_ENTERED",
              !.transfers = <<>>,
              !.logs = <<>>,
              !.last = ResultEarlier(e.cur.op, e.cur.sender, e.cur.id,
                                     IF e.pc = "ret_renter" THEN ErrRefundRenter
                                     ELSE ErrPayOwner),
              !.pc = "idle",
              !.cur = NoCallEarlier,
              !.snap = NoSnap]

\* the steps of the earlier revision, on the variable earlier
EarlierListBook(sender, title, dailyPrice, deposit) ==
    /\ earlier.pc = "idle"
    /\ ListErrorEarlier(dailyPrice, deposit) = ErrOk => earlier.bookIdCounter < MaxBooks
    /\ earlier' = listBookEarlier(earlier, sender, title, dailyPrice, deposit)

EarlierRentBook(sender, bookId, value) ==
    /\ earlier.pc = "idle"
    /\ earlier' = rentBookEarlier(earlier, sender, bookId, value)

EarlierRentOwnerPaid ==
    /\ earlier.pc = "rent_owner"
    /\ earlier.cur.amount <= earlier.balance
    /\ earlier' = RentOwnerPaidEarlier(earlier)

EarlierReturnBook(sender, bookId) ==
    /\ earlier.pc = "idle"
    /\ earlier' = returnBookEarlier(earlier, sender, bookId)

EarlierReturnOwnerPaid ==
    /\ earlier.pc = "ret_owner"
    /\ earlier.cur.amount <= earlier.balance
    /\ earlier' = ReturnOwnerPaidEarlier(earlier)

EarlierReturnRenterRefunded ==
    /\ earlier.pc = "ret_renter"
    /\ earlier.cur.amount <= earlier.balance
    /\ earlier' = ReturnRenterRefundedEarlier(earlier)

EarlierTransferFails ==
    /\ earlier.pc # "idle"
    /\ earlier' = TransferFailsEarlier(earlier)

\* payments offered to rentBook of the earlier revision: one short, exact, and
\* one in excess while the value held beyond the deposits is below MaxStuck
PaymentsEarlier(bookId) ==
    LET due == earlier.books[bookId].deposit + earlier.books[bookId].dailyPrice
    IN  IF earlier.books[bookId].owner = ZERO THEN {Price}
        ELSE {due - 1, due} \cup
             (IF earlier.balance - EscrowDue(earlier.books) < MaxStuck
              THEN {due + Excess} ELSE {})

\* ============================================ the front-end provider
\* BookRentalProvider is kept in the one variable ui: the React state
\* (contract, account, isLoading, error) and the asynchronous calls of its
\* functions that have started and not yet settled. A call occupies a slot of
\* tasks from its first statement to the end of its finally block.
TaskIds == 1..MaxTasks

Loads == {"loadBooks", "loadUserRentals"}
Writes == {"listBook", "rentBook", "returnBook"}

NoTask == [op |-> "none", at |-> "free", parent |-> 0]

ProviderInit ==
    [contract |-> FALSE, account |-> FALSE, isLoading |-> FALSE, error |-> "",
     tasks |-> [t \in TaskIds |-> NoTask]]

FreeSlots(tasks) == {t \in TaskIds : tasks[t].op = "none"}
FirstFree(tasks) == CHOOSE t \in FreeSlots(tasks) : \A o \in FreeSlots(tasks) : t <= o
Children(tasks, t) == {c \in TaskIds : tasks[c].op # "none" /\ tasks[c].parent = t}

\* what each function sets as error in its catch block
Failure(op) == CASE op = "loadBooks" -> "Failed to load books"
                 [] op = "loadUserRentals" -> "Failed to load user rentals"
                 [] op = "listBook" -> "Failed to list book"
                 [] op = "rentBook" -> "Failed to rent book"
                 [] op = "returnBook" -> "Failed to return book"

\* the first statements of every function: setIsLoading(true); setError(null);
\* then the function waits, on the chain query (loads) or on the transaction
Started(u, op, parent) ==
    [u EXCEPT !.isLoading = TRUE,
              !.error = "",
              !.tasks[FirstFree(u.tasks)] =
                  [op |-> op, at |-> IF op \in Loads THEN "fetch" ELSE "tx",
                   parent |-> parent]]

\* the finally block of every function: setIsLoading(false), and the call is over
Finally(u, t) ==
    [u EXCEPT !.isLoading = FALSE, !.tasks[t] = NoTask]

\* useEffect on [provider, signer] sets the contract; useEffect on
\* [contract, isConnected, account] then calls loadBooks() and loadUserRentals()
ProviderConnect ==
    /\ ~ui.contract
    /\ ui' = Started(Started([ui EXCEPT !.contract = TRUE, !.account = TRUE],
                             "loadBooks", 0),
                     "loadUserRentals", 0)

\* a component calls a function of the context
ProviderCall(op) ==
    /\ ui.contract
    /\ op = "loadUserRentals" => ui.account
    /\ FreeSlots(ui.tasks) # {}
    /\ ui' = Started(ui, op, 0)

\* loadBooks or loadUserRentals: the queries settle; setBooks / setUserRentals
\* or, in the catch block, setError; then the finally block
ProviderLoadSettles(t, ok) ==
    /\ ui.tasks[t].op \in Loads /\ ui.tasks[t].at = "fetch"
    /\ ui' = Finally(IF ok THEN ui ELSE [ui EXCEPT !.error = Failure(ui.tasks[t].op)], t)

\* listBook, rentBook or returnBook: the transaction settles. Mined: the
\* refresh starts, await loadBooks() for listBook and
\* await Promise.all([loadBooks(), loadUserRentals()]) for the other two.
\* Rejected: the catch block, then the finally block
ProviderTxSettles(t, ok) ==
    /\ ui.tasks[t].op \in Writes /\ ui.tasks[t].at = "tx"
    /\ IF ~ok
       THEN ui' = Finally([ui EXCEPT !.error = Failure(ui.tasks[t].op)], t)
       ELSE LET w == [ui EXCEPT !.tasks[t].at = "refresh"] IN
            IF ui.tasks[t].op = "listBook"
            THEN /\ FreeSlots(ui.tasks) # {}
                 /\ ui' = Started(w, "loadBooks", t)
            ELSE /\ Cardinality(FreeSlots(ui.tasks)) >= 2
                 /\ ui' = Started(Started(w, "loadBooks", t), "loadUserRentals", t)

\* listBook, rentBook or returnBook: every refresh awaited has settled; the
\* finally block
ProviderRefreshed(t) ==
    /\ ui.tasks[t].op \in Writes /\ ui.tasks[t].at = "refresh"
    /\ Children(ui.tasks, t) = {}
    /\ ui' = Finally(ui, t)

\* ------------------------------------------------------------ specification
Init ==
    /\ now = StartTime
    /\ books = [i \in BookIds |-> NoBook]
    /\ bookIdCounter = 0
    /\ userRentals = [u \in Users |-> <<>>]
    /\ balance = 0
    /\ status = "NOT_ENTERED"
    /\ pc = "idle"
    /\ cur = NoCall
    /\ snap = NoSnap
    /\ transfers = <<>>
    /\ logs = <<>>
    /\ last = NoLast
    /\ inner = NoInner
    /\ earlier = InitEarlier
    /\ ui = ProviderInit

Next ==
    \/ \E s \in Listers, t \in Titles, p \in DailyPrices, d \in Deposits, u \in Uris :
          listBook(s, t, p, d, u) /\ UNCHANGED <<earlier, ui>>
    \/ \E s \in Users, i \in BookIds : \E v \in Payments(i) : rentBook(s, i, v) /\ UNCHANGED <<earlier, ui>>
    \/ RentOwnerPaid /\ UNCHANGED <<earlier, ui>>
    \/ RentExcessRefunded /\ UNCHANGED <<earlier, ui>>
    \/ \E s \in Users, i \in BookIds : returnBook(s, i) /\ UNCHANGED <<earlier, ui>>
    \/ ReturnOwnerPaid /\ UNCHANGED <<earlier, ui>>
    \/ ReturnRenterRefunded /\ UNCHANGED <<earlier, ui>>
    \/ ReturnDepositPaid /\ UNCHANGED <<earlier, ui>>
    \/ TransferFails /\ UNCHANGED <<earlier, ui>>
    \/ \E t \in Titles, p \in DailyPrices, d \in Deposits, u \in Uris :
          ReenterListBook(t, p, d, u) /\ UNCHANGED <<earlier, ui>>
    \/ \E i \in BookIds : \E v \in Payments(i) : ReenterRentBook(i, v) /\ UNCHANGED <<earlier, ui>>
    \/ \E i \in BookIds : ReenterReturnBook(i) /\ UNCHANGED <<earlier, ui>>
    \/ \E t \in Instants : Tick(t) /\ UNCHANGED <<earlier, ui>>

Spec == Init /\ [][Next]_vars

\* ------------------------------------- amounts at the edge of the integer type
\* the smallest price whose double exceeds MaxUint, and the largest deposit
\* that can be added to it
HalfUint == MaxUint \div 2 + 1
WideDeposit == MaxUint - HalfUint
WidePrices == {HalfUint, MaxUint}
WideDeposits == {1, WideDeposit}

\* payments offered to rentBook for a book listed with such amounts: msg.value
\* is a value of the integer type
WidePayments(bookId) ==
    LET due == books[bookId].deposit + books[bookId].dailyPrice
    IN  ({due - 1, due} \cap (0..MaxUint)) \cup {MaxUint}

NextWide ==
    \/ \E s \in Listers, t \in Titles, p \in WidePrices, d \in WideDeposits, u \in Uris :
          listBook(s, t, p, d, u) /\ UNCHANGED <<earlier, ui>>
    \/ \E s \in Users, i \in BookIds : \E v \in WidePayments(i) : rentBook(s, i, v) /\ UNCHANGED <<earlier, ui>>
    \/ RentOwnerPaid /\ UNCHANGED <<earlier, ui>>
    \/ \E s \in Users, i \in BookIds : returnBook(s, i) /\ UNCHANGED <<earlier, ui>>
    \/ ReturnOwnerPaid /\ UNCHANGED <<earlier, ui>>
    \/ ReturnRenterRefunded /\ UNCHANGED <<earlier, ui>>
    \/ TransferFails /\ UNCHANGED <<earlier, ui>>
    \/ \E t \in Instants : Tick(t) /\ UNCHANGED <<earlier, ui>>

\* the ledger with listings whose fee arithmetic reaches the integer width
SpecWide == Init /\ [][NextWide]_vars

\* --------------------------------------------- the earlier revision alone
NextEarlier ==
    \/ \E s \in Listers, t \in Titles, p \in DailyPrices, d \in Deposits :
          EarlierListBook(s, t, p, d) /\ UNCHANGED <<ledgerVars, ui>>
    \/ \E s \in Users, i \in BookIds : \E v \in PaymentsEarlier(i) :
          EarlierRentBook(s, i, v) /\ UNCHANGED <<ledgerVars, ui>>
    \/ EarlierRentOwnerPaid /\ UNCHANGED <<ledgerVars, ui>>
    \/ \E s \in Users, i \in BookIds :
          EarlierReturnBook(s, i) /\ UNCHANGED <<ledgerVars, ui>>
    \/ EarlierReturnOwnerPaid /\ UNCHANGED <<ledgerVars, ui>>
    \/ EarlierReturnRenterRefunded /\ UNCHANGED <<ledgerVars, ui>>
    \/ EarlierTransferFails /\ UNCHANGED <<ledgerVars, ui>>
    \/ \E t \in Instants : Tick(t) /\ earlier.pc = "idle" /\ UNCHANGED <<earlier, ui>>

SpecEarlier == Init /\ [][NextEarlier]_vars

\* ------------------------------- both revisions, given the same calls
\* the payment of exactly deposit + dailyPrice
ExactPayments(bookId) ==
    IF books[bookId].owner = ZERO THEN {Price} ELSE {RentDue(books[bookId])}

\* a return of the item now would not be late
OnTime(bookId) == books[bookId].renter = ZERO \/ now <= books[bookId].rentedAt + DAY

\* every call goes to both revisions, every transfer is accepted or refused
\* in both; rents pay the exact amount, returns are on time
NextBoth ==
    \/ \E s \in Listers, t \in Titles, p \in DailyPrices, d \in Deposits, u \in Uris :
          listBook(s, t, p, d, u) /\ EarlierListBook(s, t, p, d) /\ UNCHANGED ui
    \/ \E s \in Users, i \in BookIds : \E v \in ExactPayments(i) :
          rentBook(s, i, v) /\ EarlierRentBook(s, i, v) /\ UNCHANGED ui
    \/ RentOwnerPaid /\ EarlierRentOwnerPaid /\ UNCHANGED ui
    \/ \E s \in Users, i \in BookIds :
          OnTime(i) /\ returnBook(s, i) /\ EarlierReturnBook(s, i) /\ UNCHANGED ui
    \/ ReturnOwnerPaid /\ EarlierReturnOwnerPaid /\ UNCHANGED ui
    \/ ReturnRenterRefunded /\ EarlierReturnRenterRefunded /\ UNCHANGED ui
    \/ TransferFails /\ EarlierTransferFails /\ UNCHANGED ui
    \/ \E t \in Instants : Tick(t) /\ earlier.pc = "idle" /\ UNCHANGED <<earlier, ui>>

SpecBoth == Init /\ [][NextBoth]_vars

\* ------------------------------------- holders of up to three items
\* rental arrays over the ids: no id twice in an array, none in two arrays,
\* none held by a lister
HeldArrays ==
    {a \in [Users -> UNION {[1..n -> BookIds] : n \in 0..(MaxBooks + 1)}] :
        /\ \A u \in Listers : a[u] = <<>>
        /\ \A u \in Users : \A j, k \in 1..Len(a[u]) : a[u][j] = a[u][k] => j = k
        /\ \A u, w \in Users : \A j \in 1..Len(a[u]) : \A k \in 1..Len(a[w]) :
              a[u][j] = a[w][k] => u = w}

HolderOf(a, i) ==
    IF \E u \in Users : \E j \in 1..Len(a[u]) : a[u][j] = i
    THEN CHOOSE u \in Users : \E j \in 1..Len(a[u]) : a[u][j] = i
    ELSE ZERO

\* the ledgers of both revisions after MaxBooks + 1 listings by one owner and
\* the rents, all in the first block, that give the rental arrays a
InitIndex ==
    /\ now = StartTime
    /\ \E a \in HeldArrays :
          LET owner == CHOOSE s \in Listers : TRUE
              fresh == NewBook(owner, "Dune", Price, LargeDeposit, "ipfs://cid")
              freshEarlier == NewBookEarlier(owner, "Dune", Price, LargeDeposit)
              held == {i \in BookIds : HolderOf(a, i) # ZERO}
          IN  /\ userRentals = a
              /\ books = [i \in BookIds |->
                             IF i \in held THEN RentedBook(fresh, HolderOf(a, i))
                             ELSE fresh]
              /\ balance = LargeDeposit * Cardinality(held)
              /\ earlier = [InitEarlier EXCEPT
                               !.userRentals = a,
                               !.books = [i \in BookIds |->
                                             IF i \in held
                                             THEN RentedBookEarlier(freshEarlier,
                                                                    HolderOf(a, i))
                                             ELSE freshEarlier],
                               !.bookIdCounter = MaxBooks + 1,
                               !.balance = LargeDeposit * Cardinality(held)]
    /\ bookIdCounter = MaxBooks + 1
    /\ status = "NOT_ENTERED"
    /\ pc = "idle"
    /\ cur = NoCall
    /\ snap = NoSnap
    /\ transfers = <<>>
    /\ logs = <<>>
    /\ last = NoLast
    /\ inner = NoInner
    /\ ui = ProviderInit

\* the holders return their items, in both revisions
NextIndex ==
    \/ \E s \in Users, i \in BookIds :
          returnBook(s, i) /\ EarlierReturnBook(s, i) /\ UNCHANGED ui
    \/ ReturnOwnerPaid /\ EarlierReturnOwnerPaid /\ UNCHANGED ui
    \/ ReturnRenterRefunded /\ EarlierReturnRenterRefunded /\ UNCHANGED ui

SpecIndex == InitIndex /\ [][NextIndex]_vars

\* --------------------------------------------------- the provider alone
NextProvider ==
    \/ ProviderConnect /\ UNCHANGED <<ledgerVars, earlier>>
    \/ \E op \in Loads \cup Writes : ProviderCall(op) /\ UNCHANGED <<ledgerVars, earlier>>
    \/ \E t \in TaskIds, ok \in BOOLEAN :
          ProviderLoadSettles(t, ok) /\ UNCHANGED <<ledgerVars, earlier>>
    \/ \E t \in TaskIds, ok \in BOOLEAN :
          ProviderTxSettles(t, ok) /\ UNCHANGED <<ledgerVars, earlier>>
    \/ \E t \in TaskIds : ProviderRefreshed(t) /\ UNCHANGED <<ledgerVars, earlier>>

SpecProvider == Init /\ [][NextProvider]_vars

\* ================================================================ claims
Idle == pc = "idle"
Listed(i) == books[i].owner # ZERO
Rented(i) == Listed(i) /\ ~books[i].isAvailable

\* ceil(a / b) and the fee rules as the specification words them, in
\* unbounded integers
CeilDiv(a, b) == IF a % b = 0 THEN a \div b ELSE (a \div b) + 1
Max(a, b) == IF a >= b THEN a ELSE b
SpecRentalDays(book, t) == Max(1, CeilDiv(t - book.rentedAt, DAY))
SpecLateFee(book, t) ==
    IF t > book.rentalPeriod
    THEN book.dailyPrice * CeilDiv(t - book.rentalPeriod, DAY)
    ELSE 0
SpecOwed(book, t) == book.dailyPrice * (SpecRentalDays(book, t) - 1) + SpecLateFee(book, t)

\* this step is identity s calling op on item i as a transaction: either the
\* call is refused at once, or it reaches its first value transfer
Called(op, s, i) ==
    /\ pc = "idle" /\ now' = now
    /\ \/ pc' = "idle" /\ last'.op = op /\ last'.sender = s /\ last'.id = i
       \/ pc' # "idle" /\ cur'.op = op /\ cur'.sender = s /\ cur'.id = i
Refused(err) == pc' = "idle" /\ last'.err = err

\* this step completes, successfully, the call op of identity s on item i
Succeeded(op, s, i) ==
    /\ pc # "idle" /\ cur.op = op /\ cur.sender = s /\ cur.id = i
    /\ pc' = "idle" /\ last'.op = op /\ last'.err = ErrOk

LedgerUnchanged ==
    /\ books' = books /\ userRentals' = userRentals
    /\ bookIdCounter' = bookIdCounter /\ balance' = balance

\* C1: between transactions, every listed item is available exactly when it
\* has no renter.
C1_AvailableIffNoRenter ==
    Idle => \A i \in BookIds :
                Listed(i) => (books[i].isAvailable <=> books[i].renter = ZERO)

\* a return has just succeeded while another item is still rented
C1_Witness ==
    /\ Idle /\ last.op = "return" /\ last.err = ErrOk
    /\ books[last.id].isAvailable /\ books[last.id].renter = ZERO
    /\ \E j \in BookIds : Rented(j) /\ books[j].renter # ZERO

\* C2: between transactions, item i is in the rental array of identity h
\* exactly when h is the renter of i.
C2_IndexMatchesRenter ==
    Idle => \A i \in BookIds : \A h \in Users :
                (i \in getUserRentals(h)) <=> (books[i].renter = h)

\* a holder of two items has just returned the one listed first in the array
C2_Witness ==
    /\ Idle /\ last.op = "return" /\ last.err = ErrOk
    /\ \E j \in BookIds : j > last.id /\ userRentals[last.sender] = <<j>>

\* C3 (as claimed): a returnBook by the renter when the amount owed is at
\* least the deposit is not refused, and when it completes the owner has been
\* paid the whole deposit, the renter nothing, and the item is available.
C3_ReturnAtOrOverDeposit ==
    [][\A s \in Users, i \in BookIds :
          (Rented(i) /\ books[i].renter = s
                     /\ SpecOwed(books[i], now) >= books[i].deposit)
          => /\ Called("return", s, i) => pc' # "idle"
             /\ Succeeded("return", s, i)
                  => /\ Paid(transfers', books[i].owner) = books[i].deposit
                     /\ Paid(transfers', s) = 0
                     /\ books'[i].isAvailable]_vars

\* C4 (as claimed): a returnBook by the renter of a rented item is never
\* refused, whatever the time: only a failing value transfer can undo it.
C4_RenterCanAlwaysReturn ==
    [][\A s \in Users, i \in BookIds :
          (Rented(i) /\ books[i].renter = s /\ Called("return", s, i))
          => pc' # "idle"]_vars

\* C5: rentBook on a rented item is refused with "Book is not available for
\* rent" for every caller and payment, and changes nothing.
C5_RentedItemRefused ==
    [][\A s \in Users, i \in BookIds :
          (Rented(i) /\ Called("rent", s, i))
          => /\ Refused(ErrNotAvailable)
             /\ LedgerUnchanged
             /\ transfers' = <<>>
             /\ books'[i].renter = books[i].renter
             /\ books'[i].rentedAt = books[i].rentedAt]_vars

\* a third identity has just been refused an item that someone else holds
C5_Witness ==
    /\ Idle /\ last.op = "rent" /\ last.err = ErrNotAvailable
    /\ Rented(last.id)
    /\ last.sender # books[last.id].renter
    /\ last.sender # books[last.id].owner
    /\ last.id \in getUserRentals(books[last.id].renter)

\* C6: rentBook calls of distinct non-owners on one item are serialised: a
\* call on the available item either lacks payment or goes ahead, a call on
\* the item once rented is refused as not available, a rent that completes
\* found the item without a renter, and the ledger then holds one deposit per
\* rented item.
C6_OneRenterWins ==
    [][\A s \in Users, i \in BookIds :
          (Listed(i) /\ s # books[i].owner)
          => /\ (Called("rent", s, i) /\ books[i].isAvailable)
                  => (pc' # "idle" \/ Refused(ErrPayment))
             /\ (Called("rent", s, i) /\ ~books[i].isAvailable)
                  => (Refused(ErrNotAvailable) /\ LedgerUnchanged)
             /\ Succeeded("rent", s, i)
                  => /\ snap.books[i].renter = ZERO
                     /\ books'[i].renter = s
                     /\ \A h \in Users \ {s} : i \notin {userRentals'[h][k] :
                                                        k \in 1..Len(userRentals'[h])}
                     /\ balance' = EscrowDue(books')]_vars

\* the loser of the race: refused while the winner holds the item and the
\* ledger holds exactly the winner's deposit
C6_Witness ==
    /\ Idle /\ last.op = "rent" /\ last.err = ErrNotAvailable
    /\ books[last.id].renter \in Users \ {last.sender, books[last.id].owner}
    /\ last.sender # books[last.id].owner
    /\ balance = books[last.id].deposit

\* C7 (as claimed): no call made from inside a value-transfer callback of a
\* rentBook or returnBook in flight goes through.
C7_ReentrantCallsRejected ==
    inner.op # "none" => inner.err # ErrOk

\* C8: a returnBook that completes with owed < deposit has paid the owner
\* exactly owed and the renter exactly deposit - owed.
C8_PartialRefund ==
    [][\A s \in Users, i \in BookIds :
          (Succeeded("return", s, i) /\ SpecOwed(books[i], now) < books[i].deposit)
          => LET b == books[i]
                 elapsed == now - b.rentedAt
             IN  /\ Paid(transfers', b.owner) = SpecOwed(b, now)
                 /\ Paid(transfers', s) = b.deposit - SpecOwed(b, now)
                 /\ elapsed = DAY => Paid(transfers', s) = b.deposit
                 /\ (elapsed = 3 * DAY /\ b.deposit >= 5 * b.dailyPrice)
                       => /\ Paid(transfers', b.owner) = 4 * b.dailyPrice
                          /\ Paid(transfers', s) = b.deposit - 4 * b.dailyPrice]_vars

\* a return after three days: the owner got four daily prices, the renter the rest
C8_Witness ==
    /\ Idle /\ last.op = "return" /\ last.err = ErrOk
    /\ last.rentalDays = 3
    /\ Paid(transfers, books[last.id].owner) = 4 * books[last.id].dailyPrice
    /\ Paid(transfers, last.sender) = books[last.id].deposit - 4 * books[last.id].dailyPrice
    /\ Paid(transfers, last.sender) > 0

\* C9: the duration returnBook charges is max(1, ceil((now - rentedAt) / 86400)):
\* 1 at once, 1 after exactly one day, 2 one second later.
C9_RentalDays ==
    /\ \A i \in BookIds :
          Rented(i) =>
             LET elapsed == now - books[i].rentedAt
                 days == rentalDays(books[i], now)
             IN  /\ days = SpecRentalDays(books[i], now)
                 /\ elapsed = 0 => days = 1
                 /\ elapsed = DAY => days = 1
                 /\ elapsed = DAY + 1 => days = 2
    /\ (pc # "idle" /\ cur.op = "return")
          => cur.rentalDays = SpecRentalDays(books[cur.id], now)

\* a return in flight one second after the first day
C9_Witness ==
    /\ pc # "idle" /\ cur.op = "return"
    /\ now - books[cur.id].rentedAt = DAY + 1
    /\ cur.rentalDays = 2

\* C10: the late fee of returnBook is 0 up to and at the due time, and
\* dailyPrice * ceil((now - due) / 86400) after it; the amount owed is
\* dailyPrice * (rentalDays - 1) + lateFee.
C10_LateFee ==
    /\ \A i \in BookIds :
          Rented(i) =>
             LET b == books[i] IN
             /\ lateFee(b, now) = SpecLateFee(b, now)
             /\ now <= b.rentalPeriod => lateFee(b, now) = 0
             /\ totalRentalCost(b, now) =
                   b.dailyPrice * (rentalDays(b, now) - 1) + lateFee(b, now)
    /\ (pc # "idle" /\ cur.op = "return")
          => /\ cur.lateFee = SpecLateFee(books[cur.id], now)
             /\ cur.cost = books[cur.id].dailyPrice * (cur.rentalDays - 1) + cur.lateFee

\* a return in flight one second past the due time: one day of late fee
C10_Witness ==
    /\ pc # "idle" /\ cur.op = "return"
    /\ now = books[cur.id].rentalPeriod + 1
    /\ cur.lateFee = books[cur.id].dailyPrice
    /\ cur.cost = 2 * books[cur.id].dailyPrice

\* the rental array of identity h after this step, as a set
getUserRentalsAfter(h) == {userRentals'[h][k] : k \in 1..Len(userRentals'[h])}

\* C11: a rentBook that completes on item i for caller s (necessarily not the
\* owner, the item available when called) leaves renter = s, rentedAt = now,
\* rentalPeriod = now + 86400 and isAvailable = false, and has transferred
\* exactly dailyPrice to the owner within the transaction.
C11_RentEffects ==
    [][\A s \in Users, i \in BookIds :
          Succeeded("rent", s, i)
          => /\ snap.books[i].isAvailable /\ s # books[i].owner
             /\ books'[i].renter = s
             /\ books'[i].rentedAt = now
             /\ books'[i].rentalPeriod = now + DAY
             /\ ~books'[i].isAvailable
             /\ Paid(transfers', books[i].owner) = books[i].dailyPrice
             /\ transfers'[1] = [to |-> books[i].owner, amount |-> books[i].dailyPrice]]_vars

\* Scenario A: price 100, deposit 1000, payment 1100; the owner has received
\* 100 and the item is held by the caller
C11_Witness ==
    /\ Idle /\ last.op = "rent" /\ last.err = ErrOk
    /\ books[last.id].dailyPrice = Price /\ books[last.id].deposit = LargeDeposit
    /\ transfers = <<[to |-> books[last.id].owner, amount |-> Price]>>
    /\ books[last.id].renter = last.sender
    /\ books[last.id].rentedAt = now /\ books[last.id].rentalPeriod = now + DAY
    /\ ~books[last.id].isAvailable

\* C12: when a rentBook on item i by identity s completes, i is in the rental
\* array of s and in the rental array of no other identity.
C12_RentedItemIndexed ==
    [][\A s \in Users, i \in BookIds :
          Succeeded("rent", s, i)
          => /\ i \in getUserRentalsAfter(s)
             /\ \A h \in Users \ {s} : i \notin getUserRentalsAfter(h)]_vars

\* a rent has just completed while another identity holds another item
C12_Witness ==
    /\ Idle /\ last.op = "rent" /\ last.err = ErrOk
    /\ last.id \in getUserRentals(last.sender)
    /\ \E h \in Users \ {last.sender} :
          /\ getUserRentals(h) # {}
          /\ last.id \notin getUserRentals(h)

\* C13: when a returnBook on item i completes, i is no longer in the rental
\* array of the identity that held it, the item has no renter and is available.
C13_ReturnedItemReleased ==
    [][\A s \in Users, i \in BookIds :
          Succeeded("return", s, i)
          => /\ books[i].renter = s
             /\ i \notin getUserRentalsAfter(s)
             /\ \A h \in Users : i \notin getUserRentalsAfter(h)
             /\ books'[i].renter = ZERO
             /\ books'[i].isAvailable]_vars

\* a holder of two items has just returned the one stored last in the array
C13_Witness ==
    /\ Idle /\ last.op = "return" /\ last.err = ErrOk
    /\ books[last.id].renter = ZERO /\ books[last.id].isAvailable
    /\ \E j \in BookIds : j < last.id /\ userRentals[last.sender] = <<j>>

\* payments tried against the payment require of rentBook for item i
PaymentsAround(i) ==
    LET due == books[i].deposit + books[i].dailyPrice
    IN  {0, due - 1, due, due + 1, due + Excess} \cap Nat

\* C14: rentBook answers "Insufficient payment" exactly when the item
\* exists, is available, the caller is not its owner and the payment is below
\* deposit + dailyPrice; a call refused for that reason changes nothing, and
\* a call that goes ahead carries at least deposit + dailyPrice.
C14_InsufficientPayment ==
    /\ [](Idle => \A s \in Users, i \in BookIds : \A v \in PaymentsAround(i) :
             (RentError(s, i, v) = ErrPayment)
             <=> (/\ Listed(i) /\ books[i].isAvailable /\ s # books[i].owner
                  /\ v < books[i].deposit + books[i].dailyPrice))
    /\ [][\A s \in Users, i \in BookIds :
             Called("rent", s, i)
             => /\ Refused(ErrPayment)
                   => /\ Listed(i) /\ books[i].isAvailable /\ s # books[i].owner
                      /\ LedgerUnchanged /\ transfers' = <<>>
                /\ pc' # "idle"
                   => cur'.value >= books[i].deposit + books[i].dailyPrice]_vars

\* Scenario B: a non-owner has just been refused the available item for a
\* payment short of deposit + dailyPrice that the exact amount would have
\* rented, while another item is rented and its deposit held
C14_Witness ==
    /\ Idle /\ last.op = "rent" /\ last.err = ErrPayment
    /\ Listed(last.id) /\ books[last.id].isAvailable
    /\ last.sender # books[last.id].owner
    /\ RentError(last.sender, last.id, RentDue(books[last.id])) = ErrOk
    /\ \E j \in BookIds : Rented(j) /\ balance = books[j].deposit

\* this step ends a call (made as a transaction) with an error
FailedCall == pc' = "idle" /\ now' = now /\ last'.op # "none" /\ last'.err # ErrOk

\* the ledger after this step is the one snap holds
LedgerRestored ==
    /\ books' = snap.books /\ userRentals' = snap.userRentals
    /\ bookIdCounter' = snap.bookIdCounter /\ balance' = snap.balance

\* C15: a listBook, rentBook or returnBook that fails, whether refused by a
\* require, by checked arithmetic or by a failing value transfer, leaves the
\* item records, the rental arrays, the id counter and the value held as they
\* were when it was called, and no value it sent stays sent; the same holds
\* for a call refused inside a transfer callback.
C15_FailureChangesNothing ==
    [][/\ (pc = "idle" /\ FailedCall) => (LedgerUnchanged /\ transfers' = <<>>)
       /\ (pc = "idle" /\ pc' # "idle")
             => snap' = [books |-> books, userRentals |-> userRentals,
                         bookIdCounter |-> bookIdCounter, balance |-> balance]
       /\ (pc # "idle" /\ pc' # "idle") => snap' = snap
       /\ (pc # "idle" /\ FailedCall) => (LedgerRestored /\ transfers' = <<>>)
       /\ (inner' # inner /\ inner'.err # ErrOk) => LedgerUnchanged]_vars

\* a returnBook has just failed at the refund to the renter, after the owner
\* had been paid, while the renter holds a second item
C15_Witness ==
    /\ Idle /\ last.op = "return" /\ last.err = ErrRefundRenter
    /\ books[last.id].renter = last.sender
    /\ Len(userRentals[last.sender]) = 2
    /\ balance = EscrowDue(books)
    /\ transfers = <<>>

\* C16: rentBook by the owner of an available item is refused with "Owner
\* cannot rent their own book" for every payment and changes nothing; no item
\* ever has its owner as renter, in flight or between transactions.
C16_OwnerCannotRent ==
    /\ [](\A i \in BookIds : Listed(i) => books[i].renter # books[i].owner)
    /\ [](Idle => \A i \in BookIds : \A v \in PaymentsAround(i) :
             (Listed(i) /\ books[i].isAvailable)
             => RentError(books[i].owner, i, v) = ErrSelfRental)
    /\ [][\A s \in Users, i \in BookIds :
             (Called("rent", s, i) /\ Listed(i) /\ books[i].isAvailable
                                   /\ s = books[i].owner)
             => (Refused(ErrSelfRental) /\ LedgerUnchanged /\ transfers' = <<>>)]_vars

\* Scenario F: the owner has just been refused their own available item
C16_Witness ==
    /\ Idle /\ last.op = "rent" /\ last.err = ErrSelfRental
    /\ last.sender = books[last.id].owner
    /\ books[last.id].isAvailable /\ books[last.id].renter = ZERO

\* C17: returnBook on a rented item by anyone but its renter, the owner
\* included, is refused with "Only the renter can return the book", sends no
\* value and leaves the item rented by the same renter since the same time.
C17_OnlyRenterReturns ==
    [][\A s \in Users, i \in BookIds :
          (Called("return", s, i) /\ Rented(i) /\ s # books[i].renter)
          => /\ Refused(ErrNotHolder)
             /\ LedgerUnchanged /\ transfers' = <<>>
             /\ ~books'[i].isAvailable
             /\ books'[i].renter = books[i].renter
             /\ books'[i].rentedAt = books[i].rentedAt
             /\ i \in getUserRentalsAfter(books[i].renter)]_vars

\* the owner has just been refused the return of an item someone else holds,
\* at a time when the renter's own return would go through
C17_Witness ==
    /\ Idle /\ last.op = "return" /\ last.err = ErrNotHolder
    /\ last.sender = books[last.id].owner
    /\ Rented(last.id) /\ books[last.id].renter \in Users \ {last.sender}
    /\ ReturnError(books[last.id].renter, last.id) = ErrOk
    /\ balance = books[last.id].deposit

\* C18: a rentBook that completes has sent the renter exactly
\* payment - (deposit + dailyPrice), nothing when the payment is exact, so
\* that the value held has grown by exactly the item's deposit.
C18_ExcessRefunded ==
    [][\A s \in Users, i \in BookIds :
          Succeeded("rent", s, i)
          => LET due == books[i].deposit + books[i].dailyPrice IN
             /\ cur.value >= due
             /\ Paid(transfers', s) = cur.value - due
             /\ cur.value > due
                  => transfers' = <<[to |-> books[i].owner, amount |-> books[i].dailyPrice],
                                    [to |-> s, amount |-> cur.value - due]>>
             /\ cur.value = due => Len(transfers') = 1
             /\ balance' = snap.balance + books[i].deposit
             /\ balance' = EscrowDue(books')]_vars

\* a rent paid in excess has just completed while another item is rented: the
\* renter got the excess back and one deposit per rented item is held
C18_Witness ==
    /\ Idle /\ last.op = "rent" /\ last.err = ErrOk
    /\ Len(transfers) = 2
    /\ Paid(transfers, last.sender) = Excess
    /\ \E j \in BookIds \ {last.id} : Rented(j)
    /\ balance = EscrowDue(books)
    /\ balance > books[last.id].deposit

\* C19 (as claimed): between transactions every available item has no
\* renter, rentedAt 0 and rentalPeriod 0, also after it was rented and returned.
C19_RentalDataCleared ==
    Idle => \A i \in BookIds :
                (Listed(i) /\ books[i].isAvailable)
                => /\ books[i].renter = ZERO
                   /\ books[i].rentedAt = 0
                   /\ books[i].rentalPeriod = 0

\* a rentBook is waiting on one of its value transfers
RentInFlight == pc \in {"rent_owner", "rent_excess"}

\* C20: while a rentBook is in flight the value held is what it was before
\* the call plus the payment minus what was sent on, and the caller's array
\* is the one before the call plus the item; when either transfer fails, the
\* item is available again with no renter, every rental array and the value
\* held are as before the call, and nothing sent to the owner stays sent.
C20_RentRolledBack ==
    /\ [](RentInFlight
            => /\ snap.books[cur.id].isAvailable /\ snap.books[cur.id].renter = ZERO
               /\ userRentals = [snap.userRentals EXCEPT
                                    ![cur.sender] = Append(@, cur.id)]
               /\ balance = snap.balance + cur.value
                               - Paid(transfers, books[cur.id].owner)
                               - Paid(transfers, cur.sender))
    /\ [][(RentInFlight /\ FailedCall)
            => /\ last'.op = "rent" /\ last'.id = cur.id
               /\ last'.err = IF pc = "rent_owner" THEN ErrPayOwner ELSE ErrRefundExcess
               /\ books'[cur.id].isAvailable
               /\ books'[cur.id].renter = ZERO /\ books'[cur.id].rentedAt = 0
               /\ cur.id \notin getUserRentalsAfter(cur.sender)
               /\ LedgerRestored
               /\ transfers' = <<>>]_vars

\* the excess refund of a rentBook has just failed, after the owner had taken
\* the first day's payment: the item is available and no value is held
C20_Witness ==
    /\ Idle /\ last.op = "rent" /\ last.err = ErrRefundExcess
    /\ Listed(last.id) /\ books[last.id].isAvailable /\ books[last.id].renter = ZERO
    /\ userRentals[last.sender] = <<>>
    /\ balance = 0 /\ transfers = <<>>

\* a returnBook is waiting on one of its value transfers
ReturnInFlight == pc \in {"ret_owner", "ret_renter", "ret_deposit"}

\* C21: while a returnBook is in flight the item is still rented by the
\* caller since the same time and in the caller's array, and the value held
\* is what it was before the call minus what was sent on; when a transfer
\* fails, the item stays so, the value held is again the one before the call
\* (the deposit included) and nothing sent stays sent.
C21_ReturnRolledBack ==
    /\ [](ReturnInFlight
            => /\ books[cur.id] = snap.books[cur.id]
               /\ books[cur.id].renter = cur.sender /\ ~books[cur.id].isAvailable
               /\ userRentals = snap.userRentals
               /\ balance = snap.balance - Paid(transfers, books[cur.id].owner)
                                         - Paid(transfers, cur.sender)
               /\ snap.balance >= books[cur.id].deposit)
    /\ [][(ReturnInFlight /\ FailedCall)
            => /\ last'.op = "return" /\ last'.id = cur.id
               /\ last'.err \in {ErrPayOwner, ErrRefundRenter, ErrPayDeposit}
               /\ ~books'[cur.id].isAvailable
               /\ books'[cur.id].renter = cur.sender
               /\ books'[cur.id].rentedAt = books[cur.id].rentedAt
               /\ cur.id \in getUserRentalsAfter(cur.sender)
               /\ LedgerRestored
               /\ balance' = EscrowDue(books')
               /\ transfers' = <<>>]_vars

\* the payment of a whole deposit to the owner has just failed: the item is
\* still rented, in the renter's array, and its deposit is still held
C21_Witness ==
    /\ Idle /\ last.op = "return" /\ last.err = ErrPayDeposit
    /\ Rented(last.id) /\ books[last.id].renter = last.sender
    /\ last.id \in getUserRentals(last.sender)
    /\ balance = books[last.id].deposit /\ transfers = <<>>

\* C22: listBook with dailyPrice 0 or deposit 0 is refused, as a transaction
\* or from inside a callback, stores no item and leaves the id counter; every
\* listed item has dailyPrice > 0 and deposit > 0.
C22_InvalidAmountRefused ==
    /\ [](/\ \A p \in DailyPrices \cup {0}, d \in Deposits \cup {0} :
                /\ (p = 0 \/ d = 0) <=> ListError(p, d) # ErrOk
                /\ ListError(p, d) \in {ErrOk, ErrPrice, ErrDeposit}
          /\ \A i \in BookIds :
                Listed(i) => (books[i].dailyPrice > 0 /\ books[i].deposit > 0))
    /\ [][/\ (pc = "idle" /\ FailedCall /\ last'.op = "list")
               => /\ last'.err \in {ErrPrice, ErrDeposit}
                  /\ LedgerUnchanged /\ logs' = <<>>
                  /\ ~Listed(bookIdCounter)'
          /\ (inner' # inner /\ inner'.op = "list" /\ inner'.err # ErrOk)
               => (LedgerUnchanged /\ logs' = logs)]_vars

\* a listing with deposit 0 has just been refused after one listing went
\* through: one item exists and the next id is still 1
C22_Witness ==
    /\ Idle /\ last.op = "list" /\ last.err = ErrDeposit
    /\ bookIdCounter = 1 /\ Listed(0) /\ ~Listed(1)
    /\ last.id = 1

\* the last event of the log after this step
LastLogAfter == logs'[Len(logs')]

\* this step is a listBook that goes through, as a transaction of identity s
\* or from inside a callback of identity s
Lists(s) ==
    /\ bookIdCounter' # bookIdCounter /\ pc' = pc
    /\ \/ pc = "idle" /\ last'.op = "list" /\ last'.err = ErrOk /\ last'.sender = s
       \/ pc # "idle" /\ inner'.op = "list" /\ inner'.err = ErrOk /\ cur.to = s

\* C23: a listBook that goes through stores exactly one new item, under the
\* next id, whose title, dailyPrice, deposit and metadataUri are the
\* arguments (as the BookListed event reports them), whose owner is the
\* caller, with no renter, rentedAt 0 and isAvailable true; every other item,
\* every rental array and the value held are unchanged.
C23_ListingCreatesItem ==
    [][\A s \in Users :
          Lists(s)
          => LET id == bookIdCounter
                 e == LastLogAfter
             IN  /\ bookIdCounter' = id + 1
                 /\ ~Listed(id)
                 /\ e.name = "BookListed" /\ e.bookId = id /\ e.owner = s
                 /\ books'[id] = [title |-> e.title, dailyPrice |-> e.dailyPrice,
                                  deposit |-> e.deposit, owner |-> s,
                                  renter |-> ZERO, rentedAt |-> 0, rentalPeriod |-> 0,
                                  isAvailable |-> TRUE, metadataUri |-> e.metadataUri]
                 /\ e.title \in Titles /\ e.dailyPrice > 0 /\ e.deposit > 0
                 /\ \A j \in BookIds \ {id} : books'[j] = books[j]
                 /\ userRentals' = userRentals /\ balance' = balance]_vars

\* a second item has just been listed while the first is rented: the new one
\* is available with no renter, the first still rented
C23_Witness ==
    /\ Idle /\ last.op = "list" /\ last.err = ErrOk /\ last.id = 1
    /\ books[1].owner = last.sender /\ books[1].isAvailable
    /\ books[1].renter = ZERO /\ books[1].rentedAt = 0
    /\ books[1].deposit = LargeDeposit /\ books[1].dailyPrice = Price
    /\ Rented(0) /\ books[0].renter # ZERO

\* the ledger as committed: the current one between transactions, the one a
\* revert restores while a transaction is in flight
CommittedBooks == IF pc = "idle" THEN books ELSE snap.books
CommittedCounter == IF pc = "idle" THEN bookIdCounter ELSE snap.bookIdCounter
ListedIds(bs) == {i \in BookIds : bs[i].owner # ZERO}

\* C24: the listed ids are always exactly 0 .. bookIdCounter - 1, so that the
\* n-th listing takes id n - 1 and an id is taken once; an item of the
\* committed ledger stays listed, under the same owner, through every list,
\* rent and return step, failing ones included.
C24_SequentialIds ==
    /\ [](/\ ListedIds(books) = 0..(bookIdCounter - 1)
          /\ ListedIds(CommittedBooks) = 0..(CommittedCounter - 1)
          /\ CommittedCounter <= bookIdCounter)
    /\ [][/\ \A s \in Users :
                Lists(s) => /\ LastLogAfter.bookId = Cardinality(ListedIds(books))
                            /\ ListedIds(books') = ListedIds(books)
                                                      \cup {LastLogAfter.bookId}
                            /\ LastLogAfter.bookId \notin ListedIds(books)
          /\ CommittedCounter' >= CommittedCounter
          /\ ListedIds(CommittedBooks) \subseteq ListedIds(CommittedBooks')
          /\ \A i \in ListedIds(CommittedBooks) :
                CommittedBooks'[i].owner = CommittedBooks[i].owner]_vars

\* the second listing has just taken id 1, after the first item was rented
\* and returned
C24_Witness ==
    /\ Idle /\ last.op = "list" /\ last.err = ErrOk /\ last.id = 1
    /\ bookIdCounter = 2 /\ ListedIds(books) = {0, 1}
    /\ books[0].isAvailable /\ books[0].rentalPeriod > 0
    /\ logs = <<BookListed(1, books[1])>>

\* the fields of an item that listing fixes
Fixed(b) == <<b.title, b.dailyPrice, b.deposit, b.owner, b.metadataUri>>

\* C25: title, dailyPrice, deposit, owner and metadataUri of an item never
\* change once it is listed: no step of a rentBook or returnBook, going
\* through, refused or rolled back, on this or another item, and no listBook
\* changes them.
C25_ListingFieldsFixed ==
    [][/\ \A i \in BookIds :
             (Listed(i) /\ Listed(i)') => Fixed(books'[i]) = Fixed(books[i])
       /\ \A i \in ListedIds(CommittedBooks) :
             /\ Fixed(CommittedBooks'[i]) = Fixed(CommittedBooks[i])
             /\ Fixed(books'[i]) = Fixed(books[i])]_vars

\* an item has just been returned while the other one is rented, and both
\* still carry the title, amounts, owner and URI they were listed with
C25_Witness ==
    /\ Idle /\ last.op = "return" /\ last.err = ErrOk
    /\ Fixed(books[last.id]) \in {<<t, Price, d, o, u>> :
                                     t \in Titles, d \in Deposits \ {0},
                                     o \in Listers, u \in Uris}
    /\ \E j \in BookIds \ {last.id} :
          /\ Rented(j) /\ books[j].owner \in Listers
          /\ books[j].renter # books[j].owner
          /\ books[j].dailyPrice = Price /\ books[j].title \in Titles

C27_OccupancyTransitions ==
    [][/\ \A i \in ListedIds(CommittedBooks) :
             LET before == CommittedBooks[i]
                 after == CommittedBooks'[i]
             IN  /\ (before.isAvailable /\ ~after.isAvailable)
                       => \E s \in Users : Succeeded("rent", s, i) /\ after.renter = s
                 /\ (~before.isAvailable /\ after.isAvailable)
                       => Succeeded("return", before.renter, i)
                 /\ before.isAvailable = after.isAvailable
                       => before.renter = after.renter
                 /\ \A s \in Users :
                       /\ Succeeded("rent", s, i)
                             => (before.isAvailable /\ ~after.isAvailable)
                       /\ Succeeded("return", s, i)
                             => (~before.isAvailable /\ after.isAvailable)
       /\ \A i \in BookIds :
             (Listed(i) /\ Listed(i)' /\ books'[i].isAvailable # books[i].isAvailable)
             => \/ \E s \in Users : Called("rent", s, i) /\ pc' # "idle"
                \/ \E s \in Users : Succeeded("return", s, i)
                \/ RentInFlight /\ cur.id = i /\ FailedCall
       /\ \A s \in Users :
             Lists(s) => \A i \in ListedIds(books) :
                            /\ books'[i].isAvailable = books[i].isAvailable
                            /\ books'[i].renter = books[i].renter]_vars

\* a rentBook on an item that was rented and returned before has just been
\* rolled back at the owner's payment: the item is available as before the
\* call, while the other item, rented earlier, stays rented
C27_Witness ==
    /\ Idle /\ last.op = "rent" /\ last.err = ErrPayOwner
    /\ Listed(last.id) /\ books[last.id].isAvailable
    /\ books[last.id].rentalPeriod > 0
    /\ \E j \in BookIds \ {last.id} : Rented(j)

\* whether a + b, a * b stay within the integer type, decided without
\* forming the result
SumFits(a, b) == a <= MaxUint - b
ProductFits(a, b) == b = 0 \/ a <= MaxUint \div b
SpecLateDays(book, t) ==
    IF t > book.rentalPeriod THEN CeilDiv(t - book.rentalPeriod, DAY) ELSE 0

\* the fee computation of returnBook for item i stays within the integer type
FeesFit(i) ==
    LET b == books[i]
        days == SpecRentalDays(b, now)
        late == SpecLateDays(b, now)
    IN  /\ ProductFits(b.dailyPrice, days - 1)
        /\ ProductFits(b.dailyPrice, late)
        /\ SumFits(b.dailyPrice * (days - 1), b.dailyPrice * late)

\* C28: when deposit + dailyPrice exceeds the integer type rentBook fails with
\* a panic for every payment, and when dailyPrice * (rentalDays - 1),
\* dailyPrice * lateDays or their sum exceeds it returnBook fails with a
\* panic; otherwise the amounts used are the exact ones; a call that panics
\* changes nothing, and no amount in flight is outside the integer type.
C28_NoSilentWrap ==
    /\ [](Idle => \A i \in BookIds :
             LET b == books[i] IN
             /\ (Listed(i) /\ b.isAvailable)
                   => \A s \in Users \ {b.owner} : \A v \in WidePayments(i) :
                         IF SumFits(b.deposit, b.dailyPrice)
                         THEN /\ RentDue(b) = b.deposit + b.dailyPrice
                              /\ RentError(s, i, v) =
                                    IF v >= b.deposit + b.dailyPrice THEN ErrOk ELSE ErrPayment
                         ELSE RentError(s, i, v) = ErrPanic
             /\ Rented(i)
                   => IF FeesFit(i)
                      THEN LET cost == b.dailyPrice * (SpecRentalDays(b, now) - 1)
                                          + b.dailyPrice * SpecLateDays(b, now)
                           IN  /\ totalRentalCost(b, now) = cost
                               /\ cost <= b.deposit
                                     => /\ ReturnError(b.renter, i) = ErrOk
                                        /\ refundAmount(b, now) = b.deposit - cost
                               /\ cost > b.deposit => ReturnError(b.renter, i) = ErrPanic
                      ELSE ReturnError(b.renter, i) = ErrPanic)
    /\ [](/\ balance \in Nat
          /\ pc # "idle"
                => /\ cur.amount \in 0..MaxUint /\ cur.value \in 0..MaxUint
                   /\ cur.cost \in 0..MaxUint /\ cur.refund \in 0..MaxUint
                   /\ cur.lateFee \in 0..MaxUint
                   /\ cur.amount <= balance
                   /\ books[cur.id].rentalPeriod \in 0..MaxUint)
    /\ [][/\ (pc = "idle" /\ FailedCall /\ last'.err = ErrPanic)
               => (LedgerUnchanged /\ transfers' = <<>>)
          /\ \A s \in Users, i \in BookIds :
               /\ (Called("rent", s, i) /\ Listed(i) /\ books[i].isAvailable
                      /\ s # books[i].owner
                      /\ ~SumFits(books[i].deposit, books[i].dailyPrice))
                     => Refused(ErrPanic)
               /\ (Called("return", s, i) /\ Rented(i) /\ s = books[i].renter
                      /\ ~FeesFit(i))
                     => Refused(ErrPanic)]_vars

\* a returnBook has just panicked one second after the first day, where
\* each product fits the integer type and their sum does not, while the
\* other item is listed with amounts whose sum no rentBook can form; the item
\* is still rented and its deposit held
C28_Witness ==
    /\ Idle /\ last.op = "return" /\ last.err = ErrPanic
    /\ Rented(last.id) /\ books[last.id].renter = last.sender
    /\ now = books[last.id].rentedAt + DAY + 1
    /\ ProductFits(books[last.id].dailyPrice, 1)
    /\ ~SumFits(books[last.id].dailyPrice, books[last.id].dailyPrice)
    /\ balance = books[last.id].deposit
    /\ \E j \in BookIds \ {last.id} :
          Listed(j) /\ ~SumFits(books[j].deposit, books[j].dailyPrice)

\* rentBook and returnBook on an id that is not listed are refused with "Book
\* does not exist" and change nothing
UnknownIdRefused ==
    [][\A s \in Users, i \in BookIds :
          (~Listed(i) /\ (Called("rent", s, i) \/ Called("return", s, i)))
          => (Refused(ErrNotFound) /\ LedgerUnchanged /\ transfers' = <<>>)]_vars

\* C29 (as claimed): getBookDetails on an id that is not listed reports
\* "Book does not exist", and rentBook and returnBook on such an id are
\* refused with it and change nothing.
C29_UnknownIdNotFound ==
    /\ [](\A i \in BookIds : ~Listed(i) => getBookDetails(i).err = ErrNotFound)
    /\ UnknownIdRefused

\* C30: getAllBooks returns seven arrays with one position per listed item,
\* the ids 0 .. n - 1 in ascending order, and at each position the title,
\* amounts, owner, URI and current isAvailable of the item with that id,
\* between transactions and from inside a callback alike.
C30_GetAllBooks ==
    LET r == getAllBooks
        n == Cardinality(ListedIds(books))
    IN  /\ \A f \in DOMAIN r : Len(r[f]) = n
        /\ DOMAIN r = {"ids", "titles", "dailyPrices", "deposits", "owners",
                       "availability", "metadataUris"}
        /\ {r.ids[k] : k \in 1..n} = ListedIds(books)
        /\ \A k \in 1..n :
              /\ r.ids[k] = k - 1
              /\ \A j \in 1..n : j < k => r.ids[j] < r.ids[k]
              /\ r.titles[k] = books[r.ids[k]].title
              /\ r.dailyPrices[k] = books[r.ids[k]].dailyPrice
              /\ r.deposits[k] = books[r.ids[k]].deposit
              /\ r.owners[k] = books[r.ids[k]].owner
              /\ r.availability[k] = books[r.ids[k]].isAvailable
              /\ r.metadataUris[k] = books[r.ids[k]].metadataUri

\* two items are listed, the first rented and the second not: the arrays
\* have two entries, ids 0 and 1, availability false and true
C30_Witness ==
    /\ Idle /\ Rented(0) /\ Listed(1) /\ books[1].isAvailable
    /\ getAllBooks.ids = <<0, 1>>
    /\ getAllBooks.availability = <<FALSE, TRUE>>
    /\ getAllBooks.deposits = <<books[0].deposit, books[1].deposit>>
    /\ getAllBooks.owners = <<books[0].owner, books[1].owner>>

\* ---------------------------------------------------------------------------
\* the records bs and the rental arrays agree: a listed item is available
\* exactly when it has no renter, and an id is in the array of an identity
\* exactly when that identity is the item's renter
Agree(bs, rentals) ==
    /\ \A i \in BookIds :
          bs[i].owner # ZERO => (bs[i].isAvailable <=> bs[i].renter = ZERO)
    /\ \A i \in BookIds : \A h \in Users :
          (\E j \in 1..Len(rentals[h]) : rentals[h][j] = i) <=> (bs[i].renter = h)

\* what the recipient of a value transfer of the late-fee revision can read
CallbackViewAgrees == pc # "idle" => Agree(books, userRentals)

\* what the recipient of a value transfer of the earlier revision can read
CallbackViewAgreesEarlier == earlier.pc # "idle" => Agree(earlier.books, earlier.userRentals)

\* C31 (as claimed): while rentBook or returnBook of either revision waits on
\* a value transfer, the ledger the recipient can read is not partially
\* updated: every listed item is available exactly when it has no renter and
\* the rental arrays match the items' renters.
C31_NoPartialUpdateVisible ==
    CallbackViewAgrees /\ CallbackViewAgreesEarlier

\* how many times x occurs in seq
Count(seq, x) == Cardinality({j \in 1..Len(seq) : seq[j] = x})

\* after holds what before held, each id as often, but for one i less
OneRemoved(before, after, i) ==
    \A x \in BookIds : Count(after, x) = Count(before, x) - (IF x = i THEN 1 ELSE 0)

\* this step of the earlier revision is the part of returnBook that removes
\* the id from the rental array of the caller
RemovesEarlier(s, i) ==
    /\ earlier.pc = "ret_owner" /\ earlier.cur.sender = s /\ earlier.cur.id = i
    /\ \/ earlier'.pc = "ret_renter"
       \/ earlier'.pc = "idle" /\ earlier'.last.err = ErrOk

\* C32: a return removes from the rental array of the holder exactly the id
\* returned, once, and keeps every other id the holder had, each as often as
\* before (once), wherever the id stood in the array; the arrays of the other
\* identities are untouched. Both revisions.
C32_ReturnRemovesOneId ==
    [][\A s \in Users, i \in BookIds :
          /\ Succeeded("return", s, i) =>
                /\ OneRemoved(userRentals[s], userRentals'[s], i)
                /\ Count(userRentals[s], i) = 1
                /\ \A u \in Users \ {s} : userRentals'[u] = userRentals[u]
          /\ RemovesEarlier(s, i) =>
                /\ OneRemoved(earlier.userRentals[s], earlier'.userRentals[s], i)
                /\ Count(earlier.userRentals[s], i) = 1
                /\ \A u \in Users \ {s} : earlier'.userRentals[u] = earlier.userRentals[u]
      ]_vars

\* a holder of three items returns the one in the middle of its array: the
\* earlier revision has already removed it, the last id took its place
C32_Witness ==
    /\ pc = "ret_renter" /\ earlier.pc = "ret_renter"
    /\ Len(userRentals[cur.sender]) = 3
    /\ userRentals[cur.sender][2] = cur.id
    /\ earlier.userRentals[cur.sender] =
          <<userRentals[cur.sender][1], userRentals[cur.sender][3]>>

\* C33: the BookReturned event of every returnBook that goes through carries
\* as refundAmount the amount transferred to the renter in that return (0
\* when the renter receives nothing) and as lateFee the late fee that entered
\* the amount owed, dailyPrice * (rentalDays - 1) + lateFee.
C33_ReturnEventAmounts ==
    [][\A s \in Users, i \in BookIds :
          Succeeded("return", s, i) =>
             LET ev == LastLogAfter IN
             /\ ev.name = "BookReturned" /\ ev.bookId = i /\ ev.renter = s
             /\ ev.returnedAt = now
             /\ ev.refundAmount = Paid(transfers', s)
             /\ ev.lateFee = SpecLateFee(books[i], now)
             /\ cur.cost = books[i].dailyPrice * (SpecRentalDays(books[i], now) - 1)
                              + ev.lateFee
             /\ Paid(transfers', books[i].owner) + ev.refundAmount = books[i].deposit
      ]_vars

\* a late return whose cost equals the deposit has gone through: the event
\* reports the late fee and a refund of 0, and the renter received nothing
C33_Witness ==
    /\ Idle /\ last.op = "return" /\ last.err = ErrOk
    /\ last.lateFee > 0 /\ last.refund = 0
    /\ logs # <<>> /\ logs[Len(logs)].name = "BookReturned"
    /\ logs[Len(logs)].refundAmount = 0 /\ logs[Len(logs)].lateFee = last.lateFee
    /\ Paid(transfers, last.sender) = 0

\* C34: returnBook on a listed item that is available (never rented, or
\* already returned) is refused as not rented whoever calls, pays out nothing
\* and changes nothing; the deposit of a rental is therefore paid out once:
\* the return that goes through pays the item's deposit in all and leaves the
\* item available.
C34_NoDoubleReturn ==
    [][\A s \in Users, i \in BookIds :
          /\ (Called("return", s, i) /\ Listed(i) /\ books[i].isAvailable) =>
                /\ Refused(ErrNotRented)
                /\ LedgerUnchanged
                /\ transfers' = <<>> /\ logs' = <<>>
          /\ Succeeded("return", s, i) =>
                /\ books'[i].isAvailable
                /\ Paid(transfers', books[i].owner) + Paid(transfers', s) = books[i].deposit
                /\ Len(transfers') <= 2
      ]_vars

\* an item was rented and returned, and an identity other than its owner has
\* called returnBook on it again and been refused
C34_Witness ==
    /\ Idle /\ last.op = "return" /\ last.err = ErrNotRented
    /\ Listed(last.id) /\ books[last.id].isAvailable
    /\ books[last.id].rentalPeriod > 0
    /\ last.sender # books[last.id].owner
    /\ transfers = <<>>

\* C35: in the late-fee revision the value held between transactions is the
\* sum of the deposits of the items rented at that moment, whatever calls
\* went through or failed before; it is 0 when no item is rented; and a
\* return that goes through takes exactly the item's deposit out of that
\* value, split between the owner and the renter.
C35_EscrowConserved ==
    /\ [](Idle => /\ balance = EscrowDue(books)
                  /\ (\A i \in BookIds : books[i].renter = ZERO) => balance = 0)
    /\ [][\A s \in Users, i \in BookIds :
             Succeeded("return", s, i) =>
                /\ Paid(transfers', books[i].owner) + Paid(transfers', s)
                      = books[i].deposit
                /\ balance' = snap.balance - books[i].deposit
         ]_vars

\* a late return has paid the owner and the renter a share each while another
\* item stays rented: the value held is that item's deposit
C35_Witness ==
    /\ Idle /\ last.op = "return" /\ last.err = ErrOk
    /\ last.cost > 0 /\ last.refund > 0
    /\ Paid(transfers, books[last.id].owner) = last.cost
    /\ \E j \in BookIds : Rented(j) /\ balance = books[j].deposit

\* C36 (as claimed): in the earlier revision the value held between
\* transactions is the sum of the deposits of the items rented at that moment,
\* for every payment of at least deposit + dailyPrice that rentBook accepts.
C36_EscrowConservedEarlier ==
    earlier.pc = "idle" => earlier.balance = EscrowDue(earlier.books)

\* what holds instead: the value held is never below the deposits of the
\* rented items, and the difference is the sum of what the rents overpaid
EscrowCoveredEarlier ==
    earlier.pc = "idle" => earlier.balance >= EscrowDue(earlier.books)

\* C37: at every moment, transfers in flight included, no id stands twice in
\* the rental array of a holder and no id stands in the arrays of two
\* holders; a rent that goes through leaves the id exactly once in the
\* renter's array, also when the renter or another identity held it before.
C37_NoDuplicateIds ==
    /\ [](\A u, w \in Users :
             \A j \in 1..Len(userRentals[u]) : \A k \in 1..Len(userRentals[w]) :
                userRentals[u][j] = userRentals[w][k] => (u = w /\ j = k))
    /\ [][\A s \in Users, i \in BookIds :
             Succeeded("rent", s, i) =>
                /\ Count(userRentals'[s], i) = 1
                /\ \A u \in Users \ {s} : Count(userRentals'[u], i) = 0
         ]_vars

\* a renter holds two items at once, the second rented right after another
\* identity returned it
C37_Witness ==
    /\ Idle /\ last.op = "rent" /\ last.err = ErrOk
    /\ last.returnedBy # ZERO
    /\ Len(userRentals[last.sender]) = 2
    /\ userRentals[last.sender][2] = last.id
    /\ userRentals[last.returnedBy] = <<>>

\* the BookListed events among the events of a transaction
Listings(events) == Cardinality({j \in 1..Len(events) : events[j].name = "BookListed"})

\* C38 (as claimed): a rentBook or returnBook on item i that goes through
\* leaves, compared with the ledger it was called on, the record of every
\* other item, the rental array of every identity other than the caller and
\* the id counter unchanged.
C38_FrameOfRentAndReturn ==
    [][\A s \in Users, i \in BookIds :
          (Succeeded("rent", s, i) \/ Succeeded("return", s, i)) =>
             /\ \A j \in BookIds \ {i} : books'[j] = snap.books[j]
             /\ \A u \in Users \ {s} : userRentals'[u] = snap.userRentals[u]
             /\ bookIdCounter' = snap.bookIdCounter
      ]_vars

\* what holds instead: the items listed when the call was made and the other
\* rental arrays are unchanged, and the counter has advanced by the number of
\* listBook calls the recipients of the transfers made from their callbacks
FrameButForNestedListings ==
    [][\A s \in Users, i \in BookIds :
          (Succeeded("rent", s, i) \/ Succeeded("return", s, i)) =>
             /\ \A j \in BookIds \ {i} :
                   snap.books[j].owner # ZERO => books'[j] = snap.books[j]
             /\ \A u \in Users \ {s} : userRentals'[u] = snap.userRentals[u]
             /\ bookIdCounter' = snap.bookIdCounter + Listings(logs')
             /\ \A j \in BookIds \ {i} :
                   (snap.books[j].owner = ZERO /\ Listings(logs') = 0)
                      => books'[j] = snap.books[j]
      ]_vars

\* the record of the late-fee revision without the fields the earlier
\* revision does not have (rentalPeriod, metadataUri)
AsEarlier(b) ==
    [title |-> b.title, dailyPrice |-> b.dailyPrice, deposit |-> b.deposit,
     owner |-> b.owner, renter |-> b.renter, rentedAt |-> b.rentedAt,
     isAvailable |-> b.isAvailable]

\* C39: given the same list, rent and return calls, every rent paying exactly
\* deposit + dailyPrice and every return made no later than rentedAt + 86400,
\* the two revisions are at the same point of the same call at every moment,
\* and between transactions they have the same item records, the same rental
\* arrays, the same id counter, the same value held, the same outcome of the
\* last call and the same transfers made by it; a return that goes through
\* has sent 0 to the owner and the whole deposit to the renter in both.
C39_RevisionsAgreeOnTime ==
    /\ [](/\ pc = earlier.pc
          /\ Idle =>
                /\ \A i \in BookIds : AsEarlier(books[i]) = earlier.books[i]
                /\ userRentals = earlier.userRentals
                /\ bookIdCounter = earlier.bookIdCounter
                /\ balance = earlier.balance
                /\ last.op = earlier.last.op /\ last.err = earlier.last.err
                /\ last.sender = earlier.last.sender /\ last.id = earlier.last.id
                /\ transfers = earlier.transfers)
    /\ [][\A s \in Users, i \in BookIds :
             Succeeded("return", s, i) =>
                /\ transfers' = <<[to |-> books[i].owner, amount |-> 0],
                                  [to |-> s, amount |-> books[i].deposit]>>
                /\ earlier'.transfers = transfers'
                /\ earlier'.last.refund = books[i].deposit
                /\ LastLogAfter.refundAmount = books[i].deposit
         ]_vars

\* an item rented for the exact amount has been returned exactly one day
\* later, in both revisions; another item is still rented in both
C39_Witness ==
    /\ Idle /\ earlier.pc = "idle"
    /\ last.op = "return" /\ last.err = ErrOk
    /\ earlier.last.op = "return" /\ earlier.last.err = ErrOk
    /\ now > StartTime
    /\ logs[Len(logs)].returnedAt = books[last.id].rentalPeriod
    /\ earlier.transfers = <<[to |-> books[last.id].owner, amount |-> 0],
                             [to |-> last.sender, amount |-> books[last.id].deposit]>>
    /\ \E j \in BookIds : Rented(j) /\ ~earlier.books[j].isAvailable

\* the calls of the provider's functions that have started and not finished
InFlight == {t \in TaskIds : ui.tasks[t].op # "none"}

\* C40 (as claimed): isLoading is true as long as any call of listBook,
\* rentBook, returnBook, loadBooks or loadUserRentals started through the
\* context is in flight, the refreshes awaited by rentBook and returnBook
\* included.
C40_LoadingWhileInFlight == InFlight # {} => ui.isLoading

\* what holds instead: isLoading is false whenever nothing is in flight, and
\* it is true from the start of a call until the first call to finish
LoadingOnlyWhileInFlight ==
    /\ [](InFlight = {} => ~ui.isLoading)
    /\ [][/\ InFlight' \ InFlight # {} => ui'.isLoading
          /\ InFlight \ InFlight' # {} => ~ui'.isLoading]_vars

====
